---- MODULE Spec2Model ----
(***************************************************************************)
(* Model of the calculator engine of app/calculator.py (class Calculator), *)
(* the calculation record of app/calculation.py and the observers of       *)
(* app/history.py.                                                         *)
(*                                                                         *)
(* A Decimal is the record [c, e, r]: coefficient c (signed), exponent e,  *)
(* value c * 10^e.  r = 1 marks a value that carries a rounding residue    *)
(* (a quotient rounded to the context precision, or the binary expansion   *)
(* of a float that is not a short decimal); such a value is never equal to *)
(* a short decimal.  r = 2 is NaN and r = 3 an infinity of sign c.  The    *)
(* sign of a zero is not kept (no comparison of the program reads it), and *)
(* coefficients stay within the context precision and exponent range.      *)
(***************************************************************************)
EXTENDS Integers, Sequences, FiniteSets, TLC

(* ------------------------------ bounds -------------------------------- *)
MaxHistorySize == 2   \* config.max_history_size ranges over 1..MaxHistorySize
MaxStoreLen == 2      \* rows of the history file found at construction
MaxClock == 3         \* cap on the records constructed by perform_operation
MaxObservers == 2     \* cap on len(observers)
MaxSession == 2       \* cap on the calculations one session of calculator() keeps
DivDigits == 3        \* digits tried before a quotient counts as rounded

(* ------------------------- Decimal arithmetic ------------------------- *)
Dec(c, e) == [c |-> c, e |-> e, r |-> 0]

Abs(n) == IF n < 0 THEN 0 - n ELSE n

Sgn(n) == IF n < 0 THEN 0 - 1 ELSE IF n = 0 THEN 0 ELSE 1

Min2(a, b) == IF a <= b THEN a ELSE b

Max2(a, b) == IF a >= b THEN a ELSE b

RECURSIVE Pow10(_)
Pow10(n) == IF n <= 0 THEN 1 ELSE 10 * Pow10(n - 1)

\* Decimal("NaN") and Decimal("Infinity"), Decimal("-Infinity")
NaN == [c |-> 0, e |-> 0, r |-> 2]

Infinity(sg) == [c |-> sg, e |-> 0, r |-> 3]

IsNaN(x) == x.r = 2

IsInf(x) == x.r = 3

\* the integer x.c * 10^(x.e - m), for m <= x.e
Scaled(x, m) == IF x.c = 0 THEN 0 ELSE x.c * Pow10(x.e - m)

\* comparison by numeric value of two Decimals that are not NaN
DecCmp(x, y) ==
  IF IsInf(x) \/ IsInf(y)
    THEN Sgn((IF IsInf(x) THEN x.c ELSE 0) - (IF IsInf(y) THEN y.c ELSE 0))
    ELSE LET m == Min2(IF x.c = 0 THEN y.e ELSE x.e, IF y.c = 0 THEN x.e ELSE y.e)
             d == Scaled(x, m) - Scaled(y, m)
         IN IF d # 0 THEN Sgn(d) ELSE Sgn(x.r - y.r)

\* Decimal.__eq__: a NaN is equal to nothing, itself included
DecEq(x, y) == ~IsNaN(x) /\ ~IsNaN(y) /\ DecCmp(x, y) = 0

DecIsZero(x) == x.c = 0 /\ x.r = 0

DecAdd(x, y) ==
  IF IsNaN(x) \/ IsNaN(y) THEN NaN
  ELSE IF IsInf(x) THEN x
  ELSE IF IsInf(y) THEN y
  ELSE LET m == Min2(x.e, y.e)
       IN [c |-> Scaled(x, m) + Scaled(y, m), e |-> m, r |-> Max2(x.r, y.r)]

DecNeg(x) == [x EXCEPT !.c = 0 - x.c]

DecSub(x, y) == DecAdd(x, DecNeg(y))

DecMul(x, y) ==
  IF IsNaN(x) \/ IsNaN(y) THEN NaN
  ELSE IF IsInf(x) \/ IsInf(y) THEN Infinity(Sgn(x.c) * Sgn(y.c))
  ELSE [c |-> x.c * y.c, e |-> x.e + y.e, r |-> Max2(x.r, y.r)]

\* the exponent of a zero quotient by an infinity: Etiny of the context
Etiny == 0 - 1000026

\* Decimal.__truediv__ for a nonzero divisor: the exact quotient with the
\* exponent closest to the ideal one x.e - y.e, or a rounded quotient.
DecDiv(x, y) ==
  LET ideal == x.e - y.e
      sg == Sgn(x.c) * Sgn(y.c)
      n == Abs(x.c)
      d == Abs(y.c)
      exact == {s \in 0..DivDigits : (n * Pow10(s)) % d = 0}
  IN IF IsNaN(x) \/ IsNaN(y) THEN NaN
     ELSE IF IsInf(x) THEN Infinity(x.c * (IF y.c < 0 THEN 0 - 1 ELSE 1))
     ELSE IF IsInf(y) THEN [c |-> 0, e |-> Etiny, r |-> 0]
     ELSE IF x.c = 0 THEN [c |-> 0, e |-> ideal, r |-> Max2(x.r, y.r)]
     ELSE IF exact # {}
       THEN LET s == CHOOSE t \in exact : \A u \in exact : t <= u
            IN [c |-> sg * ((n * Pow10(s)) \div d), e |-> ideal - s,
                r |-> Max2(x.r, y.r)]
       ELSE [c |-> sg * ((n * Pow10(DivDigits)) \div d),
             e |-> ideal - DivDigits, r |-> 1]

(* ------------------------------ floats -------------------------------- *)
RECURSIVE IntPow(_, _)
IntPow(b, n) == IF n <= 0 THEN 1 ELSE b * IntPow(b, n - 1)

IsIntegral(x) == x.r = 0 /\ x.e >= 0

IntValue(x) == x.c * Pow10(x.e)

\* a decimal is a binary fraction iff 5^k divides the coefficient (k = -e)
IsBinaryFraction(x) ==
  x.r = 0 /\ (x.e >= 0 \/ Abs(x.c) % IntPow(5, 0 - x.e) = 0)

\* Decimal(float(x)): the exact expansion of the nearest double
DecOfFloat(x) == IF x.r >= 2 \/ IsBinaryFraction(x) THEN x ELSE [x EXCEPT !.r = 1]

(* --------------------------- call outcomes ---------------------------- *)
\* a returned value, or a raised exception of type exc with message msg
Ok(v) == [ok |-> TRUE, val |-> v, exc |-> "None", msg |-> ""]

Raise(t, m, v) == [ok |-> FALSE, val |-> v, exc |-> t, msg |-> m]

NoDec == Dec(0, 0)

(* ------------------- app/calculation.py: Calculation ------------------ *)
OperationNames ==
  {"Addition", "Subtraction", "Multiplication", "Division", "Power", "Root"}

\* an approximate float result: not a short decimal.  Its digits are not
\* modelled, it is told apart from every short decimal by r = 1.
Inexact(x) == [c |-> x.c, e |-> x.e, r |-> 1]

\* Decimal(pow(float(x), n)) for a finite nonzero x and an integer n: exact
\* when x and the result are binary fractions
PowInt(x, n) ==
  IF ~IsBinaryFraction(x) THEN Ok(Inexact(x))
  ELSE IF n >= 0 THEN Ok([c |-> IntPow(x.c, n), e |-> x.e * n, r |-> 0])
  ELSE LET q == DecDiv(Dec(1, 0), [c |-> IntPow(x.c, 0 - n), e |-> x.e * (0 - n),
                                   r |-> 0])
       IN IF IsBinaryFraction(q) THEN Ok(q) ELSE Ok(Inexact(x))

\* Decimal(pow(float(x), 1 / n)) for a finite x > 0 and an integer n # 0:
\* exact when x is the n-th power of an integer
PowRoot(x, n) ==
  IF Abs(n) = 1 THEN PowInt(x, n)
  ELSE IF ~IsIntegral(x) THEN Ok(Inexact(x))
  ELSE LET roots == {k \in 1..IntValue(x) : IntPow(k, Abs(n)) = IntValue(x)}
       IN IF roots = {} THEN Ok(Inexact(x))
          ELSE PowInt(Dec(CHOOSE k \in roots : TRUE, 0), Sgn(n))

\* 1 / y is an integer (y = 0.5, 0.1, ...), so that x ** y is a root and the
\* y-th root of x a power
IsUnitFraction(y) == y.r = 0 /\ y.c # 0 /\ IsIntegral(DecDiv(Dec(1, 0), y))

\* Decimal(pow(float(x), float(y))) for y >= 0
FloatPower(x, y) ==
  IF DecIsZero(y) \/ DecEq(x, Dec(1, 0)) THEN Ok(Dec(1, 0))
  ELSE IF IsNaN(x) THEN Ok(NaN)
  ELSE IF IsInf(y)
    THEN Ok(CASE DecCmp(DecMul(x, x), Dec(1, 0)) < 0 -> Dec(0, 0)
              [] DecCmp(DecMul(x, x), Dec(1, 0)) = 0 -> Dec(1, 0)
              [] OTHER -> Infinity(1))
  ELSE IF IsInf(x)
    THEN Ok(IF x.c < 0 /\ IsIntegral(y) /\ IntValue(y) % 2 = 1
              THEN Infinity(0 - 1) ELSE Infinity(1))
  ELSE IF DecIsZero(x) THEN Ok(Dec(0, 0))
  ELSE IF IsIntegral(y) THEN PowInt(x, IntValue(y))
  ELSE IF x.c < 0
    THEN Raise("TypeError", "conversion from complex to Decimal is not supported",
               NoDec)
  ELSE IF IsUnitFraction(y) /\ IsBinaryFraction(y)
    THEN PowRoot(x, IntValue(DecDiv(Dec(1, 0), y)))
    ELSE Ok(Inexact(x))

\* Decimal(pow(float(x), 1 / float(y))) for x >= 0 and y # 0
FloatRoot(x, y) ==
  IF IsInf(y) \/ DecEq(x, Dec(1, 0)) THEN Ok(Dec(1, 0))
  ELSE IF IsNaN(y) THEN Ok(NaN)
  ELSE IF IsInf(x) THEN Ok(IF y.c > 0 THEN Infinity(1) ELSE Dec(0, 0))
  ELSE IF DecIsZero(x)
    THEN IF y.c < 0
      THEN Raise("ZeroDivisionError",
                 "0.0 cannot be raised to a negative power", NoDec)
      ELSE Ok(Dec(0, 0))
  ELSE IF IsIntegral(y) THEN PowRoot(x, IntValue(y))
  ELSE IF IsUnitFraction(y) THEN PowInt(x, IntValue(DecDiv(Dec(1, 0), y)))
  ELSE Ok(Inexact(x))

_raise_div_zero_unnamed == Raise("OperationError", "Calculation failed", NoDec)

_raise_div_zero == Raise("OperationError", "Division by zero is not allowed", NoDec)

_raise_neg_power ==
  Raise("OperationError", "Negative exponents are not supported", NoDec)

_raise_invalid_root_sign_first(x, y) ==
  IF DecCmp(x, Dec(0, 0)) < 0
    THEN Raise("OperationError", "Cannot calculate root of negative number", NoDec)
  ELSE IF DecIsZero(y) THEN Raise("OperationError", "Zero root is undefined", NoDec)
    ELSE Raise("OperationError", "Invalid root operation", NoDec)

_raise_invalid_root(x, y) ==
  IF DecIsZero(y) THEN Raise("OperationError", "Zero root is undefined", NoDec)
  ELSE IF DecCmp(x, Dec(0, 0)) < 0
    THEN Raise("OperationError", "Cannot calculate root of negative number", NoDec)
    ELSE Raise("OperationError", "Invalid root operation", NoDec)

\* the operands on which the lambda of name signals InvalidOperation: an
\* indeterminate form of infinities, or an order comparison with a NaN
DecSignals(name, x, y) ==
  CASE name = "Addition" -> IsInf(x) /\ IsInf(y) /\ x.c # y.c
    [] name = "Subtraction" -> IsInf(x) /\ IsInf(y) /\ x.c = y.c
    [] name = "Multiplication" ->
         (IsInf(x) /\ DecIsZero(y)) \/ (DecIsZero(x) /\ IsInf(y))
    [] name = "Division" -> ~DecIsZero(y) /\ IsInf(x) /\ IsInf(y)
    [] name = "Power" -> IsNaN(y)
    [] name = "Root" -> IsNaN(x)

\* the table of lambdas of Calculation.calculate
operations(name, x, y) ==
  IF DecSignals(name, x, y)
    THEN Raise("InvalidOperation", "[<class 'decimal.InvalidOperation'>]", NoDec)
  ELSE
  CASE name = "Addition" -> Ok(DecAdd(x, y))
    [] name = "Subtraction" -> Ok(DecSub(x, y))
    [] name = "Multiplication" -> Ok(DecMul(x, y))
    [] name = "Division" ->
         IF ~DecIsZero(y) THEN Ok(DecDiv(x, y)) ELSE _raise_div_zero
    [] name = "Power" ->
         IF DecCmp(y, Dec(0, 0)) >= 0 THEN FloatPower(x, y) ELSE _raise_neg_power
    [] name = "Root" ->
         IF DecCmp(x, Dec(0, 0)) >= 0 /\ ~DecIsZero(y)
           THEN FloatRoot(x, y) ELSE _raise_invalid_root(x, y)

\* exceptions caught by calculate: InvalidOperation, ValueError, ArithmeticError
IsArithmeticFault(t) ==
  t \in {"InvalidOperation", "ValueError", "ArithmeticError",
         "ZeroDivisionError", "OverflowError"}

calculate(name, x, y) ==
  IF name \notin OperationNames
    THEN Raise("OperationError", <<"Unknown operation: ", name>>, NoDec)
    ELSE LET res == operations(name, x, y)
         IN IF ~res.ok /\ IsArithmeticFault(res.exc)
              THEN Raise("OperationError", "Calculation failed", NoDec)
              ELSE res

NoCalc ==
  [operation |-> "", operand1 |-> NoDec, operand2 |-> NoDec, result |-> NoDec,
   timestamp |-> 0]

\* Calculation(operation, operand1, operand2) with Decimal operands, built at
\* time now: __init__ followed by __post_init__
Calculation(name, x, y, now) ==
  LET res == calculate(name, x, y)
  IN IF res.ok
       THEN Ok([operation |-> name, operand1 |-> x, operand2 |-> y,
                result |-> res.val, timestamp |-> now])
       ELSE Raise(res.exc, res.msg, NoCalc)

\* Calculation.__eq__: the timestamp does not take part
CalcEq(c1, c2) ==
  /\ c1.operation = c2.operation
  /\ DecEq(c1.operand1, c2.operand1)
  /\ DecEq(c1.operand2, c2.operand2)
  /\ DecEq(c1.result, c2.result)

\* list equality of Python: same length and element-wise __eq__
ListEq(h1, h2) ==
  /\ Len(h1) = Len(h2)
  /\ \A i \in 1..Len(h1) : CalcEq(h1[i], h2[i])

(* ------------------- serialised values (dict / CSV) ------------------- *)
\* A value held in a dict or a CSV cell.  kind is the Python type: "str",
\* "int", "float", "none" (any other object), or "missing" (no such key).
\* A str holds the text of a Decimal (s = "dec"), of an ISO timestamp
\* (s = "iso"), or any other text (s is the text).
StrDec(d) == [kind |-> "str", s |-> "dec", c |-> d.c, e |-> d.e, r |-> d.r]

StrIso(t) == [kind |-> "str", s |-> "iso", c |-> t, e |-> 0, r |-> 0]

StrText(t) == [kind |-> "str", s |-> t, c |-> 0, e |-> 0, r |-> 0]

IntCell(n) == [kind |-> "int", s |-> "", c |-> n, e |-> 0, r |-> 0]

FloatCell(d) == [kind |-> "float", s |-> "", c |-> d.c, e |-> d.e, r |-> d.r]

NoneCell == [kind |-> "none", s |-> "", c |-> 0, e |-> 0, r |-> 0]

MissingCell == [kind |-> "missing", s |-> "", c |-> 0, e |-> 0, r |-> 0]

CellDec(v) == [c |-> v.c, e |-> v.e, r |-> v.r]

\* Decimal(value)
DecimalOf(v) ==
  CASE v.kind = "str" /\ v.s = "dec" -> Ok(CellDec(v))
    [] v.kind = "str" /\ v.s # "dec" -> Raise("InvalidOperation", "ConversionSyntax", NoDec)
    [] v.kind = "int" -> Ok(Dec(v.c, 0))
    [] v.kind = "float" -> Ok(DecOfFloat(CellDec(v)))
    [] OTHER -> Raise("TypeError", "conversion to Decimal is not supported", NoDec)

\* datetime.datetime.fromisoformat(value)
fromisoformat(v) ==
  CASE v.kind = "str" /\ v.s = "iso" -> Ok(v.c)
    [] v.kind = "str" /\ v.s # "iso" -> Raise("ValueError", "Invalid isoformat string", 0)
    [] OTHER -> Raise("TypeError", "fromisoformat: argument must be str", 0)

\* Calculation.to_dict
to_dict(calc) ==
  [operation |-> StrText(calc.operation),
   operand1 |-> StrDec(calc.operand1),
   operand2 |-> StrDec(calc.operand2),
   result |-> StrDec(calc.result),
   timestamp |-> StrIso(calc.timestamp)]

\* the name a dict value denotes as key of the operations table
OperationKey(v) == IF v.kind = "str" THEN v.s ELSE ""

\* except (KeyError, InvalidOperation, ValueError) of from_dict
from_dict_wrap(res) ==
  IF ~res.ok /\ res.exc \in {"KeyError", "InvalidOperation", "ValueError"}
    THEN Raise("OperationError", "Invalid calculation data", NoCalc)
    ELSE res

from_dict_restored_keeps_stored(data, calc, ts, saved) ==
  IF data.timestamp.kind = "missing" THEN Raise("KeyError", "timestamp", NoCalc)
  ELSE IF ~ts.ok THEN Raise(ts.exc, ts.msg, NoCalc)
  ELSE IF data.result.kind = "missing" THEN Raise("KeyError", "result", NoCalc)
  ELSE IF ~saved.ok THEN Raise(saved.exc, saved.msg, NoCalc)
  ELSE Ok([calc EXCEPT !.timestamp = ts.val, !.result = saved.val])

from_dict_restored_keeps_now(data, calc, ts, saved) ==
  IF data.timestamp.kind = "missing" THEN Raise("KeyError", "timestamp", NoCalc)
  ELSE IF ~ts.ok THEN Raise(ts.exc, ts.msg, NoCalc)
  ELSE IF data.result.kind = "missing" THEN Raise("KeyError", "result", NoCalc)
  ELSE IF ~saved.ok THEN Raise(saved.exc, saved.msg, NoCalc)
  ELSE Ok(calc)

\* from_dict after the Calculation is built: the timestamp is restored, then
\* the stored result is parsed and compared (a mismatch only logs a warning)
from_dict_restored(data, calc, ts, saved) ==
  IF data.timestamp.kind = "missing" THEN Raise("KeyError", "timestamp", NoCalc)
  ELSE IF ~ts.ok THEN Raise(ts.exc, ts.msg, NoCalc)
  ELSE IF data.result.kind = "missing" THEN Raise("KeyError", "result", NoCalc)
  ELSE IF ~saved.ok THEN Raise(saved.exc, saved.msg, NoCalc)
  ELSE Ok([calc EXCEPT !.timestamp = ts.val])

from_dict_built(data, calc) ==
  IF ~calc.ok THEN calc
  ELSE from_dict_restored(data, calc.val, fromisoformat(data.timestamp),
                          DecimalOf(data.result))

\* from_dict once the operands d1 and d2 are converted: Calculation(...)
from_dict_parsed(data, d1, d2, now) ==
  IF data.operation.kind = "missing" THEN Raise("KeyError", "operation", NoCalc)
  ELSE IF data.operand1.kind = "missing" THEN Raise("KeyError", "operand1", NoCalc)
  ELSE IF ~d1.ok THEN Raise(d1.exc, d1.msg, NoCalc)
  ELSE IF data.operand2.kind = "missing" THEN Raise("KeyError", "operand2", NoCalc)
  ELSE IF ~d2.ok THEN Raise(d2.exc, d2.msg, NoCalc)
  ELSE from_dict_built(data, Calculation(OperationKey(data.operation), d1.val,
                                         d2.val, now))

\* the body of the try block of Calculation.from_dict, built at time now
from_dict_body(data, now) ==
  from_dict_parsed(data, DecimalOf(data.operand1), DecimalOf(data.operand2), now)

from_dict(data, now) == from_dict_wrap(from_dict_body(data, now))

\* from_dict logs a warning: the stored result differs from the computed one
result_differs(res, saved) == res.ok /\ ~DecEq(res.val.result, saved.val)

from_dict_warns(data, now) ==
  result_differs(from_dict(data, now), DecimalOf(data.result))

(* ------------------------- the history file --------------------------- *)
\* The file is absent, or holds rows of text cells under the header
\* operation,operand1,operand2,result,timestamp.
NoFile == [exists |-> FALSE, rows |-> <<>>]

FileOf(rows) == [exists |-> TRUE, rows |-> rows]

Columns == {"operation", "operand1", "operand2", "result", "timestamp"}

\* pandas.read_csv dtype inference for one column: int64 when every cell is
\* an integer literal, float64 when every cell is a number, else object (str)
ColumnKind(rows, col) ==
  IF \A i \in 1..Len(rows) : rows[i][col].s = "dec" /\ rows[i][col].r = 0
                              /\ rows[i][col].e = 0
    THEN "int"
  ELSE IF \A i \in 1..Len(rows) : rows[i][col].s = "dec"
    THEN "float"
    ELSE "str"

ReadCell(cell, kind) ==
  CASE kind = "int" -> IntCell(cell.c)
    [] kind = "float" -> FloatCell(CellDec(cell))
    [] OTHER -> cell

\* pandas.read_csv followed by iterrows: the rows as dicts of Python values
read_csv(rows) ==
  [i \in 1..Len(rows) |->
     [col \in Columns |-> ReadCell(rows[i][col], ColumnKind(rows, col))]]

\* the rows save_history writes for a history
HistoryRows(h) == [i \in 1..Len(h) |-> to_dict(h[i])]

\* the record a row of the file was written from, if save_history wrote it
SavedRecord(row) ==
  Calculation(OperationKey(row.operation), CellDec(row.operand1),
              CellDec(row.operand2), row.timestamp.c)

IsSavedRow(row) == SavedRecord(row).ok /\ row = to_dict(SavedRecord(row).val)

(* ---------------- collaborators of the engine (spec 6) ---------------- *)
\* raw operand values handed to perform_operation
RawOperands == {StrDec(Dec(0, 0)), StrDec(Dec(2, 0)), StrText("abc")}

\* InputValidator.validate_number(value, config)
validate_number(v) ==
  LET d == DecimalOf(v)
  IN IF d.ok THEN d ELSE Raise("ValidationError", "Invalid number format", NoDec)

\* the operations a caller selects with set_operation
StrategyNames == {"Division"}

\* Operation.execute(a, b) of the selected strategy
execute(name, x, y) ==
  LET res == operations(name, x, y)
  IN IF name \notin OperationNames
       THEN Raise("AttributeError", "object has no attribute 'execute'", NoDec)
     ELSE IF res.ok \/ res.exc = "OperationError" THEN res
     ELSE Raise("OperationError", res.msg, NoDec)

\* CalculatorMemento(history.copy()) and memento.history.copy()
CalculatorMemento(h) == h

Configs == [max_history_size : 1..MaxHistorySize, auto_save : BOOLEAN]

(* --------------------------- observers -------------------------------- *)
\* LoggingObserver, AutoSaveObserver, and a HistoryObserver whose update
\* raises an exception of type raises
ObserverKinds ==
  { [kind |-> "LoggingObserver", raises |-> "None"],
    [kind |-> "AutoSaveObserver", raises |-> "None"],
    [kind |-> "RaisingObserver", raises |-> "RuntimeError"],
    [kind |-> "RaisingObserver", raises |-> "ValidationError"] }

(* -------------- app/calculation/__init__.py: the factory --------------- *)
\* str.lower on the names that occur
lower(s) ==
  CASE s \in {"add", "Add", "ADD"} -> "add"
    [] s \in {"divide", "Divide", "DIVIDE"} -> "divide"
    [] s \in {"power", "Power", "POWER"} -> "power"
    [] s \in {"help", "HELP"} -> "help"
    [] s \in {"history", "History"} -> "history"
    [] s \in {"exit", "Exit", "EXIT"} -> "exit"
    [] s \in {"addition", "Addition"} -> "addition"
    [] s = "Subtraction" -> "subtraction"
    [] s = "Multiplication" -> "multiplication"
    [] s = "Division" -> "division"
    [] s = "Root" -> "root"
    [] s = "Modulus" -> "modulus"
    [] OTHER -> s

\* _calculations once the module is imported: the four decorated classes
Registered ==
  << [key |-> "add", class |-> "AddCalculation"],
     [key |-> "subtract", class |-> "SubtractCalculation"],
     [key |-> "multiply", class |-> "MultiplyCalculation"],
     [key |-> "divide", class |-> "DivideCalculation"] >>

\* cls._calculations.keys(), in insertion order
keys(reg) == [i \in 1..Len(reg) |-> reg[i].key]

\* cls._calculations.get(key): the class, or "None"
get(reg, key) ==
  IF \E i \in 1..Len(reg) : reg[i].key = key
    THEN reg[CHOOSE i \in 1..Len(reg) : reg[i].key = key].class
    ELSE "None"

(* ------------------------------ state --------------------------------- *)
\* no call recorded since the undo stack was last empty
NoTrail ==
  [on |-> FALSE, H0 |-> <<>>, performed |-> <<>>, undone |-> 0, redone |-> 0,
   refused |-> FALSE]

VARIABLES
  config,              \* self.config
  history,             \* self.history
  operation_strategy,  \* self.operation_strategy ("None" or a name)
  observers,           \* self.observers
  undo_stack,          \* self.undo_stack
  redo_stack,          \* self.redo_stack
  store,               \* the file config.history_file
  clock,               \* datetime.now(), counted in records constructed
  last,                \* the last call and its outcome
  updates,             \* the update calls made by the last call, in order
  run,                 \* records appended since the history was last empty
  ids,                 \* which list object self.history and each snapshot is
  trail,               \* the calls made since the undo stack was last empty
  _calculations,       \* CalculationFactory._calculations, in insertion order
  pc                   \* where the loop of calculator() stands

vars == <<config, history, operation_strategy, observers, undo_stack,
          redo_stack, store, clock, last, updates, run, ids, trail,
          _calculations, pc>>

engine == <<history, undo_stack, redo_stack>>

\* outcome of a call: the exception that left it, or its return value
\* (inner is the exception first raised inside the call, before any wrapping)
Returned(call, b, v) ==
  [call |-> call, exc |-> "None", msg |-> "", inner |-> "None", ret |-> b,
   value |-> v]

Raised(call, t, m, inner) ==
  [call |-> call, exc |-> t, msg |-> m, inner |-> inner, ret |-> FALSE,
   value |-> NoDec]

(* --------------------------- save / load ------------------------------ *)
\* Calculator.save_history: ioFail is a failure of the file system
save_history_result(h, st, ioFail) ==
  IF ioFail
    THEN [exc |-> "OperationError", msg |-> "Failed to save history", store |-> st]
    ELSE [exc |-> "None", msg |-> "", store |-> FileOf(HistoryRows(h))]

\* the list comprehension of load_history over the rows read
from_dicts(data, now) == [i \in 1..Len(data) |-> from_dict(data[i], now)]

FirstFailure(calcs) ==
  CHOOSE i \in 1..Len(calcs) : ~calcs[i].ok /\ \A j \in 1..(i - 1) : calcs[j].ok

load_rows_keeps_loaded(h, calcs) ==
  IF \E i \in 1..Len(calcs) : ~calcs[i].ok
    THEN [exc |-> "OperationError", msg |-> "Failed to load history",
          inner |-> calcs[FirstFailure(calcs)].exc,
          history |-> [i \in 1..(FirstFailure(calcs) - 1) |-> calcs[i].val]]
    ELSE [exc |-> "None", msg |-> "", inner |-> "None",
          history |-> [i \in 1..Len(calcs) |-> calcs[i].val]]

\* load_history once every row went through from_dict
load_rows(h, calcs) ==
  IF \E i \in 1..Len(calcs) : ~calcs[i].ok
    THEN [exc |-> "OperationError", msg |-> "Failed to load history",
          inner |-> calcs[FirstFailure(calcs)].exc, history |-> h]
    ELSE [exc |-> "None", msg |-> "", inner |-> "None",
          history |-> [i \in 1..Len(calcs) |-> calcs[i].val]]

\* Calculator.load_history: ioFail is a failure of read_csv
load_history_result(h, st, now, ioFail) ==
  IF ~st.exists THEN [exc |-> "None", msg |-> "", inner |-> "None", history |-> h]
  ELSE IF ioFail
    THEN [exc |-> "OperationError", msg |-> "Failed to load history",
          inner |-> "OSError", history |-> h]
  ELSE IF Len(st.rows) = 0
    THEN [exc |-> "None", msg |-> "", inner |-> "None", history |-> h]
    ELSE load_rows(h, from_dicts(read_csv(st.rows), now))

(* --------------------------- notification ----------------------------- *)
\* HistoryObserver.update(calculation) of observer o, seeing history h and
\* file st: LoggingObserver.update, AutoSaveObserver.update, or a raise
\* (saved tells whether the call invoked save_history)
NoSave(t, m, st) == [exc |-> t, msg |-> m, store |-> st, saved |-> FALSE]

Saved(res) == [exc |-> res.exc, msg |-> res.msg, store |-> res.store, saved |-> TRUE]

update_ignores_flag(o, h, st, autoSave, ioFail) ==
  CASE o.kind = "AutoSaveObserver" -> Saved(save_history_result(h, st, ioFail))
    [] o.kind = "LoggingObserver" -> NoSave("None", "", st)
    [] OTHER -> NoSave(o.raises, "observer failed", st)

update(o, h, st, autoSave, ioFail) ==
  CASE o.kind = "AutoSaveObserver" ->
         IF autoSave THEN Saved(save_history_result(h, st, ioFail))
         ELSE NoSave("None", "", st)
    [] o.kind = "LoggingObserver" -> NoSave("None", "", st)
    [] OTHER -> NoSave(o.raises, "observer failed", st)

\* the record of one update call: the observer called (its position and
\* class), the calculation passed, the engine's lists as they are at the
\* call (seen), and the outcome of the call
UpdateCall(i, o, calc, seen, res) ==
  [index |-> i, kind |-> o.kind, calculation |-> calc, history |-> seen.history,
   undo_stack |-> seen.undo_stack, redo_stack |-> seen.redo_stack,
   saved |-> res.saved, exc |-> res.exc]

\* Calculator.notify_observers: the loop from observer i on; ups is the
\* list of update calls made so far
RECURSIVE notify_from(_, _, _, _, _, _, _, _)
notify_step_swallows(i, obs, calc, seen, autoSave, ioFail, ups, res) ==
  notify_from(i + 1, obs, calc, seen, res.store, autoSave, ioFail,
              Append(ups, UpdateCall(i, obs[i], calc, seen, res)))

\* one turn of the loop: res is the outcome of obs[i].update(calc)
notify_step(i, obs, calc, seen, autoSave, ioFail, ups, res) ==
  IF res.exc # "None"
    THEN [exc |-> res.exc, msg |-> res.msg, store |-> res.store,
          updates |-> Append(ups, UpdateCall(i, obs[i], calc, seen, res))]
    ELSE notify_from(i + 1, obs, calc, seen, res.store, autoSave, ioFail,
                     Append(ups, UpdateCall(i, obs[i], calc, seen, res)))

notify_from(i, obs, calc, seen, st, autoSave, ioFail, ups) ==
  IF i > Len(obs) THEN [exc |-> "None", msg |-> "", store |-> st, updates |-> ups]
  ELSE notify_step(i, obs, calc, seen, autoSave, ioFail, ups,
                   update(obs[i], seen.history, st, autoSave, ioFail))

notify_observers(obs, calc, seen, st, autoSave, ioFail) ==
  notify_from(1, obs, calc, seen, st, autoSave, ioFail, <<>>)

(* ------------------------ perform_operation --------------------------- *)
perform_wrap_leaks(t) == t

\* the except clauses of perform_operation: the exception type that leaves
perform_wrap(t) == IF t = "ValidationError" THEN "ValidationError" ELSE "OperationError"

perform_wrap_msg(t, m) == IF t = "ValidationError" THEN m ELSE "Operation failed"

no_operation_set_skipped(op) == FALSE

\* if not self.operation_strategy
no_operation_set(op) == op = "None"

push_snapshot_single(u, h) == <<CalculatorMemento(h)>>

\* undo_stack.append(CalculatorMemento(history.copy()))
push_snapshot(u, h) == Append(u, CalculatorMemento(h))

clear_redo_skipped(r) == r

\* redo_stack.clear()
clear_redo(r) == <<>>

append_evict_off_by_one(h, calc, maxSize) ==
  LET h2 == Append(h, calc)
  IN IF Len(h2) >= maxSize THEN Tail(h2) ELSE h2

\* history.append(calculation) and the eviction that follows it
append_evict(h, calc, maxSize) ==
  LET h2 == Append(h, calc)
  IN IF Len(h2) > maxSize THEN Tail(h2) ELSE h2

RunAfterAppend(calc) == [run EXCEPT !.recs = Append(@, calc)]

RunBroken == [valid |-> FALSE, recs |-> <<>>]

perform_failed_clears_redo(t, m) ==
  /\ last' = Raised("perform_operation", perform_wrap(t), perform_wrap_msg(t, m), t)
  /\ updates' = <<>>
  /\ redo_stack' = <<>>
  /\ UNCHANGED <<config, history, operation_strategy, observers, undo_stack,
                 store, clock, run>>

\* perform_operation leaves with an exception raised before the commit
perform_failed(t, m) ==
  /\ last' = Raised("perform_operation", perform_wrap(t), perform_wrap_msg(t, m), t)
  /\ updates' = <<>>
  /\ UNCHANGED <<config, history, operation_strategy, observers, undo_stack,
                 redo_stack, store, clock, run>>

\* the commit, with note the outcome of notify_observers(calculation)
perform_notified(calc, value, h2, note) ==
  /\ undo_stack' = push_snapshot(undo_stack, history)
  /\ redo_stack' = clear_redo(redo_stack)
  /\ history' = h2
  /\ store' = note.store
  /\ updates' = note.updates
  /\ run' = RunAfterAppend(calc)
  /\ clock' = clock + 1
  /\ last' = IF note.exc # "None"
               THEN Raised("perform_operation", perform_wrap(note.exc),
                           perform_wrap_msg(note.exc, note.msg), note.exc)
               ELSE Returned("perform_operation", TRUE, value)
  /\ UNCHANGED <<config, operation_strategy, observers>>

engine_at_notify_early(h, u, r, h2) ==
  [history |-> h, undo_stack |-> u, redo_stack |-> r]

\* the engine's lists when notify_observers is called: the snapshot is
\* pushed, the redo stack cleared and the record appended before it
engine_at_notify(h, u, r, h2) ==
  [history |-> h2, undo_stack |-> push_snapshot(u, h), redo_stack |-> clear_redo(r)]

perform_committed(calc, value, h2, ioFail) ==
  perform_notified(calc, value, h2,
                   notify_observers(observers, calc,
                                    engine_at_notify(history, undo_stack,
                                                     redo_stack, h2),
                                    store, config.auto_save, ioFail))

\* calc is the outcome of Calculation(operation, operand1, operand2)
perform_recorded(calc, value, ioFail) ==
  IF ~calc.ok THEN perform_failed(calc.exc, calc.msg)
  ELSE perform_committed(calc.val, value,
                         append_evict(history, calc.val, config.max_history_size),
                         ioFail)

\* result is the outcome of operation_strategy.execute(x, y)
perform_executed(x, y, result, ioFail) ==
  IF ~result.ok THEN perform_failed(result.exc, result.msg)
  ELSE perform_recorded(Calculation(operation_strategy, x, y, clock), result.val,
                        ioFail)

\* va and vb are the outcomes of validate_number(a) and validate_number(b)
perform_validated(va, vb, ioFail) ==
  IF ~va.ok THEN perform_failed(va.exc, va.msg)
  ELSE IF ~vb.ok THEN perform_failed(vb.exc, vb.msg)
  ELSE perform_executed(va.val, vb.val,
                        execute(operation_strategy, va.val, vb.val), ioFail)

perform_operation(a, b, ioFail) ==
  /\ clock < MaxClock
  /\ IF no_operation_set(operation_strategy)
       THEN /\ last' = Raised("perform_operation", "OperationError",
                              "No operation set", "OperationError")
            /\ updates' = <<>>
            /\ UNCHANGED <<config, history, operation_strategy, observers,
                           undo_stack, redo_stack, store, clock, run>>
       ELSE perform_validated(validate_number(a), validate_number(b), ioFail)

(* ----------------------- the other operations ------------------------- *)
set_operation_clears_redo(name) ==
  /\ operation_strategy' = name
  /\ redo_stack' = <<>>
  /\ last' = Returned("set_operation", TRUE, NoDec)
  /\ updates' = <<>>
  /\ UNCHANGED <<config, history, observers, undo_stack, store, clock, run>>

\* self.operation_strategy = operation
set_operation(name) ==
  /\ operation_strategy' = name
  /\ last' = Returned("set_operation", TRUE, NoDec)
  /\ updates' = <<>>
  /\ UNCHANGED <<config, history, observers, undo_stack, redo_stack, store,
                 clock, run>>

add_observer(o) ==
  /\ Len(observers) < MaxObservers
  /\ observers' = Append(observers, o)
  /\ last' = Returned("add_observer", TRUE, NoDec)
  /\ updates' = <<>>
  /\ UNCHANGED <<config, history, operation_strategy, undo_stack, redo_stack,
                 store, clock, run>>

\* observers.remove(observer) for the observer registered at position i
remove_observer(i) ==
  /\ i \in 1..Len(observers)
  /\ observers' = SubSeq(observers, 1, i - 1) \o SubSeq(observers, i + 1, Len(observers))
  /\ last' = Returned("remove_observer", TRUE, NoDec)
  /\ updates' = <<>>
  /\ UNCHANGED <<config, history, operation_strategy, undo_stack, redo_stack,
                 store, clock, run>>

\* list.pop() of a non-empty stack
Top(stack) == stack[Len(stack)]

Pop(stack) == SubSeq(stack, 1, Len(stack) - 1)

undo_result_pushes_restored(h, u, r) ==
  IF u = <<>>
    THEN [ret |-> FALSE, history |-> h, undo_stack |-> u, redo_stack |-> r]
    ELSE [ret |-> TRUE, history |-> Top(u), undo_stack |-> Pop(u),
          redo_stack |-> Append(r, CalculatorMemento(Top(u)))]

undo_result_drops_oldest(h, u, r) ==
  IF u = <<>>
    THEN [ret |-> FALSE, history |-> h, undo_stack |-> u, redo_stack |-> r]
    ELSE [ret |-> TRUE, history |-> IF Top(u) = <<>> THEN <<>> ELSE Tail(Top(u)),
          undo_stack |-> Pop(u),
          redo_stack |-> Append(r, CalculatorMemento(h))]

\* Calculator.undo on history h, undo stack u and redo stack r
undo_result(h, u, r) ==
  IF u = <<>>
    THEN [ret |-> FALSE, history |-> h, undo_stack |-> u, redo_stack |-> r]
    ELSE [ret |-> TRUE, history |-> Top(u), undo_stack |-> Pop(u),
          redo_stack |-> Append(r, CalculatorMemento(h))]

redo_result_no_push(h, u, r) ==
  IF r = <<>>
    THEN [ret |-> FALSE, history |-> h, undo_stack |-> u, redo_stack |-> r]
    ELSE [ret |-> TRUE, history |-> Top(r), redo_stack |-> Pop(r),
          undo_stack |-> u]

redo_result_keeps_history(h, u, r) ==
  IF r = <<>>
    THEN [ret |-> FALSE, history |-> h, undo_stack |-> u, redo_stack |-> r]
    ELSE [ret |-> TRUE, history |-> h, redo_stack |-> Pop(r),
          undo_stack |-> Append(u, CalculatorMemento(h))]

\* Calculator.redo on history h, undo stack u and redo stack r
redo_result(h, u, r) ==
  IF r = <<>>
    THEN [ret |-> FALSE, history |-> h, undo_stack |-> u, redo_stack |-> r]
    ELSE [ret |-> TRUE, history |-> Top(r), redo_stack |-> Pop(r),
          undo_stack |-> Append(u, CalculatorMemento(h))]

undo_saves ==
  LET res == undo_result(history, undo_stack, redo_stack)
  IN /\ history' = res.history
     /\ undo_stack' = res.undo_stack
     /\ redo_stack' = res.redo_stack
     /\ run' = IF res.ret THEN RunBroken ELSE run
     /\ last' = Returned("undo", res.ret, NoDec)
     /\ updates' = <<>>
     /\ store' = IF res.ret /\ config.auto_save
                   THEN FileOf(HistoryRows(res.history)) ELSE store
     /\ UNCHANGED <<config, operation_strategy, observers, clock>>

undo ==
  LET res == undo_result(history, undo_stack, redo_stack)
  IN /\ history' = res.history
     /\ undo_stack' = res.undo_stack
     /\ redo_stack' = res.redo_stack
     /\ run' = IF res.ret THEN RunBroken ELSE run
     /\ last' = Returned("undo", res.ret, NoDec)
     /\ updates' = <<>>
     /\ UNCHANGED <<config, operation_strategy, observers, store, clock>>

redo ==
  LET res == redo_result(history, undo_stack, redo_stack)
  IN /\ history' = res.history
     /\ undo_stack' = res.undo_stack
     /\ redo_stack' = res.redo_stack
     /\ run' = IF res.ret THEN RunBroken ELSE run
     /\ last' = Returned("redo", res.ret, NoDec)
     /\ updates' = <<>>
     /\ UNCHANGED <<config, operation_strategy, observers, store, clock>>

clear_result_keeps_undo(h, u, r) ==
  [history |-> <<>>, undo_stack |-> u, redo_stack |-> <<>>]

\* history.clear(), undo_stack.clear(), redo_stack.clear()
clear_result(h, u, r) == [history |-> <<>>, undo_stack |-> <<>>, redo_stack |-> <<>>]

clear_history ==
  /\ history' = clear_result(history, undo_stack, redo_stack).history
  /\ undo_stack' = clear_result(history, undo_stack, redo_stack).undo_stack
  /\ redo_stack' = clear_result(history, undo_stack, redo_stack).redo_stack
  /\ run' = [valid |-> TRUE, recs |-> <<>>]
  /\ last' = Returned("clear_history", TRUE, NoDec)
  /\ updates' = <<>>
  /\ UNCHANGED <<config, operation_strategy, observers, store, clock>>

save_history(ioFail) ==
  LET res == save_history_result(history, store, ioFail)
  IN /\ store' = res.store
     /\ last' = IF res.exc = "None" THEN Returned("save_history", TRUE, NoDec)
                ELSE Raised("save_history", res.exc, res.msg, "OSError")
     /\ updates' = <<>>
     /\ UNCHANGED <<config, history, operation_strategy, observers, undo_stack,
                    redo_stack, clock, run>>

load_history(ioFail) ==
  LET res == load_history_result(history, store, clock, ioFail)
  IN /\ history' = res.history
     /\ run' = IF res.history = history THEN run ELSE RunBroken
     /\ last' = IF res.exc = "None" THEN Returned("load_history", TRUE, NoDec)
                ELSE Raised("load_history", res.exc, res.msg, res.inner)
     /\ updates' = <<>>
     /\ UNCHANGED <<config, operation_strategy, observers, undo_stack,
                    redo_stack, store, clock>>

(* ------------------------- initial state ------------------------------ *)
\* rows a history file may hold when the calculator is constructed
RowAdd == to_dict(Calculation("Addition", Dec(2, 0), Dec(2, 0), 0).val)

RowStale == [RowAdd EXCEPT !.result = StrDec(Dec(5, 0))]

RowBad == [RowAdd EXCEPT !.operation = StrText("Modulus")]

StoredRows == {RowAdd, RowBad}

RECURSIVE SeqsUpTo(_, _)
SeqsUpTo(S, n) ==
  IF n = 0 THEN {<<>>}
  ELSE LET shorter == SeqsUpTo(S, n - 1)
       IN shorter \cup {Append(q, x) : q \in {t \in shorter : Len(t) = n - 1}, x \in S}

InitStores == {NoFile} \cup {FileOf(rows) : rows \in SeqsUpTo(StoredRows, MaxStoreLen)}

\* Calculator.__init__: empty state, then load_history with failures ignored
Init ==
  /\ config \in Configs
  /\ store \in InitStores
  /\ clock = 0
  /\ \E ioFail \in BOOLEAN :
       history = load_history_result(<<>>, store, 0, ioFail).history
  /\ operation_strategy = "None"
  /\ observers = <<>>
  /\ undo_stack = <<>>
  /\ redo_stack = <<>>
  /\ last = Returned("__init__", TRUE, NoDec)
  /\ updates = <<>>
  /\ run = [valid |-> history = <<>>, recs |-> <<>>]
  /\ ids = [history |-> 0, undo_stack |-> <<>>, redo_stack |-> <<>>]
  /\ trail = NoTrail
  /\ _calculations = Registered
  /\ pc = "import"

\* the engine without observers: history, undo/redo and the history file
\* found at construction
Next ==
  \/ /\ \E a \in RawOperands, b \in RawOperands : perform_operation(a, b, FALSE)
     /\ UNCHANGED <<ids, trail, _calculations, pc>>
  \/ /\ \E name \in StrategyNames : set_operation(name)
     /\ UNCHANGED <<ids, trail, _calculations, pc>>
  \/ /\ undo
     /\ UNCHANGED <<ids, trail, _calculations, pc>>
  \/ /\ redo
     /\ UNCHANGED <<ids, trail, _calculations, pc>>
  \/ /\ clear_history
     /\ UNCHANGED <<ids, trail, _calculations, pc>>
  \/ /\ \E ioFail \in BOOLEAN : load_history(ioFail)
     /\ UNCHANGED <<ids, trail, _calculations, pc>>

Spec == Init /\ [][Next]_vars

\* the engine with observers and saving, started without a history file or
\* with a file of one record
InitObservers == Init /\ store \in {NoFile, FileOf(<<RowAdd>>)}

NextObservers ==
  \/ /\ \E a \in RawOperands, b \in RawOperands, ioFail \in BOOLEAN :
          perform_operation(a, b, ioFail)
     /\ UNCHANGED <<ids, trail, _calculations, pc>>
  \/ /\ \E name \in StrategyNames : set_operation(name)
     /\ UNCHANGED <<ids, trail, _calculations, pc>>
  \/ /\ \E o \in ObserverKinds : add_observer(o)
     /\ UNCHANGED <<ids, trail, _calculations, pc>>
  \/ /\ \E i \in 1..MaxObservers : remove_observer(i)
     /\ UNCHANGED <<ids, trail, _calculations, pc>>
  \/ /\ \E ioFail \in BOOLEAN : save_history(ioFail)
     /\ UNCHANGED <<ids, trail, _calculations, pc>>

SpecObservers == InitObservers /\ [][NextObservers]_vars

\* notification: observers are registered, operations performed, undone and
\* redone, the history cleared, started without a history file
InitNotify == Init /\ store = NoFile

NextNotify ==
  \/ /\ \E a \in RawOperands, b \in RawOperands, ioFail \in BOOLEAN :
          perform_operation(a, b, ioFail)
     /\ UNCHANGED <<ids, trail, _calculations, pc>>
  \/ /\ \E name \in StrategyNames : set_operation(name)
     /\ UNCHANGED <<ids, trail, _calculations, pc>>
  \/ /\ \E o \in ObserverKinds : add_observer(o)
     /\ UNCHANGED <<ids, trail, _calculations, pc>>
  \/ /\ undo
     /\ UNCHANGED <<ids, trail, _calculations, pc>>
  \/ /\ redo
     /\ UNCHANGED <<ids, trail, _calculations, pc>>
  \/ /\ clear_history
     /\ UNCHANGED <<ids, trail, _calculations, pc>>

SpecNotify == InitNotify /\ [][NextNotify]_vars

\* persistence: operations with a fractional operand are performed, saved
\* and loaded; the file found at construction holds a record whose stored
\* result disagrees with its operands
StoreOperands == {StrDec(Dec(1, 0 - 1)), StrDec(Dec(2, 0))}

InitStore ==
  /\ config \in {c \in Configs : ~c.auto_save}
  /\ store \in {NoFile, FileOf(<<RowStale>>)}
  /\ clock = 0
  /\ \E ioFail \in BOOLEAN :
       history = load_history_result(<<>>, store, 0, ioFail).history
  /\ operation_strategy = "None"
  /\ observers = <<>>
  /\ undo_stack = <<>>
  /\ redo_stack = <<>>
  /\ last = Returned("__init__", TRUE, NoDec)
  /\ updates = <<>>
  /\ run = [valid |-> history = <<>>, recs |-> <<>>]
  /\ ids = [history |-> 0, undo_stack |-> <<>>, redo_stack |-> <<>>]
  /\ trail = NoTrail
  /\ _calculations = Registered
  /\ pc = "import"

NextStore ==
  \/ /\ \E a \in StoreOperands, b \in StoreOperands : perform_operation(a, b, FALSE)
     /\ UNCHANGED <<ids, trail, _calculations, pc>>
  \/ /\ set_operation("Addition")
     /\ UNCHANGED <<ids, trail, _calculations, pc>>
  \/ /\ \E ioFail \in BOOLEAN : save_history(ioFail)
     /\ UNCHANGED <<ids, trail, _calculations, pc>>
  \/ /\ \E ioFail \in BOOLEAN : load_history(ioFail)
     /\ UNCHANGED <<ids, trail, _calculations, pc>>

SpecStore == InitStore /\ [][NextStore]_vars

(* ------------------ the record on its own (pure calls) ---------------- *)
\* operands: zeros, integers, negatives, fractions (binary or not), NaN and
\* the infinities
Operands ==
  {Dec(0, 0), Dec(0, 2), Dec(2, 0), Dec(4, 0), Dec(0 - 8, 0), Dec(0 - 2, 0),
   Dec(5, 0 - 1), Dec(1, 0 - 1), NaN, Infinity(1), Infinity(0 - 1)}

\* values found under a key of the mapping handed to from_dict
DictValues ==
  [operation |-> {StrText("Addition"), StrText("Modulus"), NoneCell, MissingCell},
   operand1 |-> {StrDec(Dec(2, 0)), StrDec(NaN), StrText("abc"), IntCell(2),
                 FloatCell(Dec(1, 0 - 1)), NoneCell, MissingCell},
   operand2 |-> {StrDec(Dec(2, 0)), StrText("abc"), NoneCell, MissingCell},
   result |-> {StrDec(Dec(4, 0)), StrDec(Dec(5, 0)), StrText("abc"), NoneCell,
               MissingCell},
   timestamp |-> {StrIso(0), StrText("yesterday"), NoneCell, MissingCell}]

Dicts == {d \in [Columns -> UNION {DictValues[k] : k \in Columns}] :
            \A k \in Columns : d[k] \in DictValues[k]}

\* a call of the constructor or of from_dict: about to be made with
\* arguments args, or made with outcome res
Calling(call, args) ==
  [call |-> call, args |-> args, exc |-> "Pending", msg |-> "", inner |-> "None",
   ret |-> FALSE, value |-> NoCalc]

Called(call, args, res) ==
  [call |-> call, args |-> args, exc |-> res.exc, msg |-> res.msg,
   inner |-> res.exc, ret |-> res.ok, value |-> res.val]

\* Calculation(operation=args[1], operand1=args[2], operand2=args[3])
construct ==
  /\ last.call = "Calculation" /\ last.exc = "Pending"
  /\ last' = Called("Calculation", last.args,
                    Calculation(last.args[1], last.args[2], last.args[3], clock))
  /\ clock' = clock + 1
  /\ updates' = <<>>
  /\ UNCHANGED <<config, history, operation_strategy, observers, undo_stack,
                 redo_stack, store, run>>

\* Calculation.from_dict(data)
from_dict_call(data) ==
  /\ last' = Called("from_dict", <<data>>, from_dict(data, clock))
  /\ updates' = <<>>
  /\ UNCHANGED <<config, history, operation_strategy, observers, undo_stack,
                 redo_stack, store, clock, run>>

\* a caller about to construct a record or to hand a mapping to from_dict
InitCalculation ==
  /\ config = [max_history_size |-> 1, auto_save |-> FALSE]
  /\ store = NoFile
  /\ clock = 0
  /\ history = <<>>
  /\ operation_strategy = "None"
  /\ observers = <<>>
  /\ undo_stack = <<>>
  /\ redo_stack = <<>>
  /\ updates = <<>>
  /\ run = [valid |-> TRUE, recs |-> <<>>]
  /\ ids = [history |-> 0, undo_stack |-> <<>>, redo_stack |-> <<>>]
  /\ trail = NoTrail
  /\ _calculations = Registered
  /\ pc = "import"
  /\ last \in {Calling("Calculation", <<name, x, y>>) :
                 name \in OperationNames \cup {"Modulus", "addition"},
                 x \in Operands,
                 y \in Operands}
              \cup {Calling("from_dict", <<data>>) : data \in Dicts}

\* the record is constructed, then serialised and read back; a mapping of
\* any content is handed to from_dict
NextCalculation ==
  \/ /\ construct
     /\ UNCHANGED <<ids, trail, _calculations, pc>>
  \/ /\ /\ last.call = "Calculation" /\ last.ret
        /\ from_dict_call(to_dict(last.value))
     /\ UNCHANGED <<ids, trail, _calculations, pc>>
  \/ /\ /\ last.call = "from_dict" /\ last.exc = "Pending"
        /\ from_dict_call(last.args[1])
     /\ UNCHANGED <<ids, trail, _calculations, pc>>

SpecCalculation == InitCalculation /\ [][NextCalculation]_vars

(* ------- app/operation, app/calculation (factory), app/calculator ------ *)
\* The numbers here are floats, written as the shortest decimal that names
\* them; on the small integers and NaN used the arithmetic of floats is that
\* of Decimal, a quotient apart, which is rounded.
\* Operation.division(a, b)
division(a, b) ==
  IF DecIsZero(b) THEN Raise("ValueError", "Division by zero is not allowed.", NoDec)
  ELSE Ok(DecDiv(a, b))

\* the outcome res of an execute and the Operation methods it called
Traced(res, calls) ==
  [ok |-> res.ok, val |-> res.val, exc |-> res.exc, msg |-> res.msg,
   calls |-> calls]

DivideCalculation_execute_unguarded(a, b) == Traced(division(a, b), <<"division">>)

\* DivideCalculation.execute
DivideCalculation_execute(a, b) ==
  IF DecIsZero(b)
    THEN Traced(Raise("ZeroDivisionError", "Cannot divide by zero.", NoDec), <<>>)
    ELSE Traced(division(a, b), <<"division">>)

\* calculation.execute() of an instance of a registered class; a class
\* registered by a test double raises Exception
Calculation_execute(calc) ==
  CASE calc.class = "AddCalculation" ->
         Traced(Ok(DecAdd(calc.a, calc.b)), <<"addition">>)
    [] calc.class = "SubtractCalculation" ->
         Traced(Ok(DecSub(calc.a, calc.b)), <<"subtraction">>)
    [] calc.class = "MultiplyCalculation" ->
         Traced(Ok(DecMul(calc.a, calc.b)), <<"multiplication">>)
    [] calc.class = "DivideCalculation" -> DivideCalculation_execute(calc.a, calc.b)
    [] OTHER -> Traced(Raise("Exception", "Mock exception during execution", NoDec),
                       <<>>)

\* Calculation.__str__: "<class>: <a> <name> <b> = <result>", which executes
\* the calculation again
Calculation_str(calc) ==
  LET res == Calculation_execute(calc)
  IN IF res.ok
       THEN Ok([class |-> calc.class, a |-> calc.a, b |-> calc.b, result |-> res.val])
       ELSE Raise(res.exc, res.msg, calc)

register_overwrites(reg, calculation_type, subclass) ==
  [ok |-> TRUE, exc |-> "None", msg |-> <<>>,
   val |-> Append(SelectSeq(reg, LAMBDA e : e.key # lower(calculation_type)),
                  [key |-> lower(calculation_type), class |-> subclass])]

\* CalculationFactory.register_calculation(calculation_type)(subclass) on the
\* registry reg: the registry it leaves
register(reg, calculation_type, subclass) ==
  IF get(reg, lower(calculation_type)) # "None"
    THEN [ok |-> FALSE, exc |-> "ValueError",
          msg |-> <<"Calculation type '", calculation_type,
                    "' is already registered.">>, val |-> reg]
    ELSE [ok |-> TRUE, exc |-> "None", msg |-> <<>>,
          val |-> Append(reg, [key |-> lower(calculation_type), class |-> subclass])]

create_exact(reg, calculation_type, a, b) ==
  IF get(reg, calculation_type) = "None"
    THEN [ok |-> FALSE, exc |-> "ValueError",
          msg |-> <<"Unsupported calculation type: '", calculation_type,
                    "'. Available types: ">> \o keys(reg),
          val |-> [class |-> "None", a |-> a, b |-> b]]
    ELSE [ok |-> TRUE, exc |-> "None", msg |-> <<>>,
          val |-> [class |-> get(reg, calculation_type), a |-> a, b |-> b]]

\* CalculationFactory.create_calculation(calculation_type, a, b) on the
\* registry reg; the message is kept as the pieces it is joined from
create(reg, calculation_type, a, b) ==
  IF get(reg, lower(calculation_type)) = "None"
    THEN [ok |-> FALSE, exc |-> "ValueError",
          msg |-> <<"Unsupported calculation type: '", calculation_type,
                    "'. Available types: ">> \o keys(reg),
          val |-> [class |-> "None", a |-> a, b |-> b]]
    ELSE [ok |-> TRUE, exc |-> "None", msg |-> <<>>,
          val |-> [class |-> get(reg, lower(calculation_type)), a |-> a, b |-> b]]

\* float(text) on the words that occur
float(s) ==
  CASE s = "0" -> Ok(Dec(0, 0))
    [] s = "5" -> Ok(Dec(5, 0))
    [] s = "10" -> Ok(Dec(10, 0))
    [] s = "nan" -> Ok(NaN)
    [] OTHER -> Raise("ValueError", "could not convert string to float", NoDec)

\* what display_history(history) prints
display_history(h) ==
  IF h = <<>> THEN <<"No calculations performed yet.">>
  ELSE <<"Calculation History:">>
         \o [i \in 1..Len(h) |-> [idx |-> i, text |-> Calculation_str(h[i]).val]]

\* one pass of the loop of calculator(): what it prints, the session history
\* it leaves, where it goes next, and the Operation methods it called
Pass(printed, h, next, calls) ==
  [printed |-> printed, history |-> h, pc |-> next, calls |-> calls]

calculator_executed_appends_first(h, calc, res) ==
  IF res.exc = "ZeroDivisionError"
    THEN Pass(<<"Cannot divide by zero.", "Please enter a non-zero divisor.">>,
              Append(h, calc), "input", res.calls)
  ELSE IF ~res.ok
    THEN Pass(<<"An error occurred during calculation: ", res.msg,
                "Please try again.">>, Append(h, calc), "input", res.calls)
  ELSE IF ~Calculation_str(calc).ok THEN Pass(<<>>, Append(h, calc), "Traceback", res.calls)
  ELSE Pass(<<"Result: ", Calculation_str(calc).val>>, Append(h, calc), "input",
            res.calls)

calculator_executed_exits_on_error(h, calc, res) ==
  IF res.exc = "ZeroDivisionError"
    THEN Pass(<<"Cannot divide by zero.", "Please enter a non-zero divisor.">>,
              h, "SystemExit(0)", res.calls)
  ELSE IF ~res.ok
    THEN Pass(<<"An error occurred during calculation: ", res.msg,
                "Please try again.">>, h, "input", res.calls)
  ELSE IF ~Calculation_str(calc).ok THEN Pass(<<>>, h, "Traceback", res.calls)
  ELSE Pass(<<"Result: ", Calculation_str(calc).val>>, Append(h, calc), "input",
            res.calls)

\* the loop body once calculation.execute() has ended with res
calculator_executed(h, calc, res) ==
  IF res.exc = "ZeroDivisionError"
    THEN Pass(<<"Cannot divide by zero.", "Please enter a non-zero divisor.">>,
              h, "input", res.calls)
  ELSE IF ~res.ok
    THEN Pass(<<"An error occurred during calculation: ", res.msg,
                "Please try again.">>, h, "input", res.calls)
  ELSE IF ~Calculation_str(calc).ok THEN Pass(<<>>, h, "Traceback", res.calls)
  ELSE Pass(<<"Result: ", Calculation_str(calc).val>>, Append(h, calc), "input",
            res.calls)

\* the loop body once the line is split in three and the numbers converted
calculator_parsed(reg, h, operation, num1, num2) ==
  IF ~num1.ok \/ ~num2.ok
    THEN Pass(<<"Invalid input. Please follow the format: <operation> <num1> <num2>",
                "Type 'help' for more information.">>, h, "input", <<>>)
  ELSE IF ~create(reg, operation, num1.val, num2.val).ok
    THEN Pass(create(reg, operation, num1.val, num2.val).msg
                \o <<"Type 'help' to see the list of supported operations.">>,
              h, "input", <<>>)
  ELSE calculator_executed(h, create(reg, operation, num1.val, num2.val).val,
         Calculation_execute(create(reg, operation, num1.val, num2.val).val))

\* the loop body for the words of the stripped line user_input
calculator_line(reg, h, user_input) ==
  IF user_input = <<>> THEN Pass(<<>>, h, "input", <<>>)
  ELSE IF Len(user_input) = 1 /\ lower(user_input[1]) = "help"
    THEN Pass(<<"help_message">>, h, "input", <<>>)
  ELSE IF Len(user_input) = 1 /\ lower(user_input[1]) = "history"
    THEN Pass(display_history(h), h, "input", <<>>)
  ELSE IF Len(user_input) = 1 /\ lower(user_input[1]) = "exit"
    THEN Pass(<<"Exiting calculator. Goodbye!">>, h, "SystemExit(0)", <<>>)
  ELSE IF Len(user_input) # 3
    THEN Pass(<<"Invalid input. Please follow the format: <operation> <num1> <num2>",
                "Type 'help' for more information.">>, h, "input", <<>>)
  ELSE calculator_parsed(reg, h, user_input[1], float(user_input[2]),
                         float(user_input[3]))

\* what input(">> ") gives: the words of a line, or an exception
Lines ==
  { <<>>, <<"help">>, <<"HELP">>, <<"history">>, <<"History">>, <<"exit">>,
    <<"EXIT">>, <<"add", "10", "5">>, <<"ADD", "5", "0">>, <<"add", "nan", "5">>,
    <<"divide", "10", "5">>, <<"Divide", "10", "0">>, <<"divide", "0", "0">>,
    <<"power", "5", "5">>, <<"add", "abc", "5">>, <<"add", "10">>,
    <<"exit", "now">>, <<"exit", "0", "0">> }

\* one pass of the loop of calculator(): input() gives the line user_input
calculator_input(user_input) ==
  LET pass == calculator_line(_calculations, history, user_input)
  IN /\ pc = "input"
     /\ Len(pass.history) <= MaxSession
     /\ history' = pass.history
     /\ pc' = pass.pc
     /\ last' = [call |-> "input", args |-> <<user_input>>, printed |-> pass.printed,
                 calls |-> pass.calls]
     /\ UNCHANGED <<config, operation_strategy, observers, undo_stack, redo_stack,
                    store, clock, updates, run, ids, trail, _calculations>>

\* one pass of the loop in which input() raises exc (KeyboardInterrupt or
\* EOFError)
calculator_interrupt(exc) ==
  /\ pc = "input"
  /\ pc' = "SystemExit(0)"
  /\ last' = [call |-> "input raises", args |-> <<exc>>, calls |-> <<>>,
              printed |-> IF exc = "EOFError"
                THEN <<"EOF detected. Exiting calculator. Goodbye!">>
                ELSE <<"Keyboard interrupt detected. Exiting calculator. Goodbye!">>]
  /\ UNCHANGED <<config, history, operation_strategy, observers, undo_stack,
                 redo_stack, store, clock, updates, run, ids, trail, _calculations>>

\* @CalculationFactory.register_calculation(calculation_type) on subclass
register_calculation(calculation_type, subclass) ==
  /\ _calculations' = register(_calculations, calculation_type, subclass).val
  /\ last' = [call |-> "register_calculation", args |-> <<calculation_type, subclass>>,
              exc |-> register(_calculations, calculation_type, subclass).exc,
              msg |-> register(_calculations, calculation_type, subclass).msg]
  /\ UNCHANGED <<config, history, operation_strategy, observers, undo_stack,
                 redo_stack, store, clock, updates, run, ids, trail, pc>>

\* a direct call of Operation.division(a, b) or of
\* DivideCalculation(a, b).execute()
direct_call(method, a, b) ==
  /\ last' = IF method = "Operation.division"
               THEN Called(method, <<a, b>>, division(a, b)) @@ [calls |-> <<>>]
               ELSE Called(method, <<a, b>>, DivideCalculation_execute(a, b))
                      @@ [calls |-> DivideCalculation_execute(a, b).calls]
  /\ UNCHANGED <<config, history, operation_strategy, observers, undo_stack,
                 redo_stack, store, clock, updates, run, ids, trail,
                 _calculations, pc>>

Numbers == {Dec(0, 0), Dec(5, 0), Dec(10, 0), NaN}

\* the module imported and calculator() at its first prompt
InitFactory ==
  /\ config = [max_history_size |-> 1, auto_save |-> FALSE]
  /\ store = NoFile
  /\ clock = 0
  /\ history = <<>>
  /\ operation_strategy = "None"
  /\ observers = <<>>
  /\ undo_stack = <<>>
  /\ redo_stack = <<>>
  /\ updates = <<>>
  /\ run = [valid |-> TRUE, recs |-> <<>>]
  /\ ids = [history |-> 0, undo_stack |-> <<>>, redo_stack |-> <<>>]
  /\ trail = NoTrail
  /\ last = [call |-> "calculator", args |-> <<>>, calls |-> <<>>,
             printed |-> <<"Welcome to the Professional Calculator REPL!",
                           "Type 'help' for instructions or 'exit' to quit.">>]
  /\ _calculations = Registered
  /\ pc = "input"

NextFactory ==
  \/ \E user_input \in Lines : calculator_input(user_input)
  \/ \E exc \in {"KeyboardInterrupt", "EOFError"} : calculator_interrupt(exc)
  \/ \E calculation_type \in {"add", "ADD", "Divide", "power", "POWER"},
        subclass \in {"AddCalculation", "MockCalculation"} :
       register_calculation(calculation_type, subclass)
  \/ \E method \in {"Operation.division", "DivideCalculation.execute"},
        a \in Numbers, b \in Numbers : direct_call(method, a, b)

SpecFactory == InitFactory /\ [][NextFactory]_vars

(* ------------- the list objects behind history and snapshots ---------- *)
copy_same_list(id, used) == id

\* list.copy(): a new list object, named by the smallest number that names
\* no list in use
copy(id, used) ==
  CHOOSE n \in 0..Cardinality(used) :
    n \notin used /\ \A m \in 0..(n - 1) : m \in used

\* which list objects self.history and the snapshots are after the call
\* whose outcome is l, given which they were before (d): append, pop(0) and
\* clear() work on the list in place, copy() makes a new one
ids_after(d, l) ==
  LET used == {d.history} \cup {d.undo_stack[i] : i \in 1..Len(d.undo_stack)}
                \cup {d.redo_stack[i] : i \in 1..Len(d.redo_stack)}
      saved == copy(d.history, used)
  IN CASE l.call = "perform_operation" /\ l.exc = "None" ->
            [history |-> d.history, undo_stack |-> Append(d.undo_stack, saved),
             redo_stack |-> <<>>]
       [] l.call = "undo" /\ l.ret ->
            [history |-> copy(Top(d.undo_stack), used \cup {saved}),
             undo_stack |-> Pop(d.undo_stack),
             redo_stack |-> Append(d.redo_stack, saved)]
       [] l.call = "redo" /\ l.ret ->
            [history |-> copy(Top(d.redo_stack), used \cup {saved}),
             undo_stack |-> Append(d.undo_stack, saved),
             redo_stack |-> Pop(d.redo_stack)]
       [] l.call = "clear_history" ->
            [history |-> d.history, undo_stack |-> <<>>, redo_stack |-> <<>>]
       [] OTHER -> d

\* the calls made since the undo stack was last empty, as long as they are
\* k operations performed, then undo() calls, then redo() calls: H0 is the
\* history the first operation found, performed the history after each
\* operation, refused whether undo() returned False once all were undone
trail_after(tr, l, h, u, h2) ==
  CASE l.call = "perform_operation" /\ l.exc = "None" ->
         IF u = <<>>
           THEN [on |-> TRUE, H0 |-> h, performed |-> <<h2>>, undone |-> 0,
                 redone |-> 0, refused |-> FALSE]
         ELSE IF tr.on /\ tr.undone = 0
           THEN [tr EXCEPT !.performed = Append(@, h2)]
         ELSE NoTrail
    [] l.call = "undo" /\ l.ret ->
         IF tr.on /\ tr.redone = 0 THEN [tr EXCEPT !.undone = @ + 1] ELSE NoTrail
    [] l.call = "undo" /\ ~l.ret ->
         IF tr.on /\ tr.redone = 0 THEN [tr EXCEPT !.refused = TRUE] ELSE tr
    [] l.call = "redo" /\ l.ret ->
         IF tr.on /\ tr.undone = Len(tr.performed)
           THEN [tr EXCEPT !.redone = @ + 1]
           ELSE NoTrail
    [] l.call \in {"redo", "set_operation", "show_history"} -> tr
    [] OTHER -> NoTrail

show_history_result_newest_first(h) ==
  [i \in 1..Len(h) |->
     <<h[Len(h) + 1 - i].operation, "(", StrDec(h[Len(h) + 1 - i].operand1), ", ",
       StrDec(h[Len(h) + 1 - i].operand2), ") = ", StrDec(h[Len(h) + 1 - i].result)>>]

\* the list show_history returns: each string is written as its pieces, the
\* numbers as the strings str() gives
show_history_result(h) ==
  [i \in 1..Len(h) |->
     <<h[i].operation, "(", StrDec(h[i].operand1), ", ", StrDec(h[i].operand2),
       ") = ", StrDec(h[i].result)>>]

show_history ==
  /\ last' = [Returned("show_history", TRUE, NoDec)
                EXCEPT !.value = show_history_result(history)]
  /\ updates' = <<>>
  /\ UNCHANGED <<config, history, operation_strategy, observers, undo_stack,
                 redo_stack, store, clock, run>>

\* the engine with the identity of its lists followed: started without a
\* history file or with a file of one or two records
InitSnapshots ==
  Init /\ store \in {NoFile, FileOf(<<RowAdd>>), FileOf(<<RowAdd, RowAdd>>)}

NextSnapshots ==
  \/ /\ \E a \in RawOperands, b \in RawOperands : perform_operation(a, b, FALSE)
     /\ ids' = ids_after(ids, last')
     /\ trail' = trail_after(trail, last', history, undo_stack, history')
     /\ UNCHANGED <<_calculations, pc>>
  \/ /\ \E name \in StrategyNames : set_operation(name)
     /\ ids' = ids_after(ids, last')
     /\ trail' = trail_after(trail, last', history, undo_stack, history')
     /\ UNCHANGED <<_calculations, pc>>
  \/ /\ undo
     /\ ids' = ids_after(ids, last')
     /\ trail' = trail_after(trail, last', history, undo_stack, history')
     /\ UNCHANGED <<_calculations, pc>>
  \/ /\ redo
     /\ ids' = ids_after(ids, last')
     /\ trail' = trail_after(trail, last', history, undo_stack, history')
     /\ UNCHANGED <<_calculations, pc>>
  \/ /\ clear_history
     /\ ids' = ids_after(ids, last')
     /\ trail' = trail_after(trail, last', history, undo_stack, history')
     /\ UNCHANGED <<_calculations, pc>>
  \/ /\ show_history
     /\ ids' = ids_after(ids, last')
     /\ trail' = trail_after(trail, last', history, undo_stack, history')
     /\ UNCHANGED <<_calculations, pc>>

SpecSnapshots == InitSnapshots /\ [][NextSnapshots]_vars

(* ====================== properties of the engine ====================== *)
PerformOk(l) == l.call = "perform_operation" /\ l.exc = "None"

\* C1: in every reachable state len(history) <= config.max_history_size,
\* the load done by the constructor included.
C1_HistoryBounded == Len(history) <= config.max_history_size

\* C2: a successful perform_operation leaves the redo stack empty; while the
\* redo stack is empty redo() returns False and changes nothing, and only a
\* successful undo() makes it non-empty again.
C2_RedoInvalidated ==
  [][ /\ PerformOk(last') => redo_stack' = <<>>
      /\ (redo_stack = <<>> /\ last'.call = "redo")
           => (last'.ret = FALSE /\ UNCHANGED engine)
      /\ (redo_stack = <<>> /\ redo_stack' # <<>>)
           => (last'.call = "undo" /\ last'.ret = TRUE) ]_vars

\* perform, undo, perform, redo: redo returned False
C2_Witness ==
  /\ last.call = "redo" /\ last.ret = FALSE
  /\ store = NoFile /\ clock = 2
  /\ ~run.valid /\ Len(run.recs) = 1
  /\ Len(undo_stack) = 1 /\ Len(history) = 1

\* C3: with a non-empty undo stack, undo() followed at once by redo() returns
\* True twice and restores history (record by record), undo stack and redo
\* stack.
C3_UndoRedoRoundTrip ==
  undo_stack # <<>> =>
    LET s1 == undo_result(history, undo_stack, redo_stack)
        s2 == redo_result(s1.history, s1.undo_stack, s1.redo_stack)
    IN /\ s1.ret = TRUE
       /\ s2.ret = TRUE
       /\ ListEq(s2.history, history)
       /\ s2.undo_stack = undo_stack
       /\ s2.redo_stack = redo_stack

\* a redo that succeeded and restored a history of two records
C3_Witness ==
  /\ last.call = "redo" /\ last.ret = TRUE
  /\ Len(history) = 2 /\ undo_stack # <<>>
  /\ undo_result(history, undo_stack, redo_stack).history # history

\* C4: undo() with an empty undo stack returns False and changes nothing;
\* otherwise it returns True, removes the top snapshot of the undo stack,
\* pushes the pre-undo history onto the redo stack and makes the removed
\* snapshot the history.
C4_UndoContract ==
  [][ last'.call = "undo" =>
        IF undo_stack = <<>>
          THEN last'.ret = FALSE /\ UNCHANGED engine
          ELSE /\ last'.ret = TRUE
               /\ undo_stack' = SubSeq(undo_stack, 1, Len(undo_stack) - 1)
               /\ redo_stack' = redo_stack \o <<history>>
               /\ ListEq(history', undo_stack[Len(undo_stack)]) ]_vars

C4_Witness ==
  /\ last.call = "undo" /\ last.ret = TRUE
  /\ undo_stack # <<>> /\ redo_stack # <<>> /\ history # <<>>

\* C5: redo() with an empty redo stack returns False and changes nothing;
\* otherwise it returns True, removes the top snapshot of the redo stack,
\* pushes the pre-redo history onto the undo stack and makes the removed
\* snapshot the history.
C5_RedoContract ==
  [][ last'.call = "redo" =>
        IF redo_stack = <<>>
          THEN last'.ret = FALSE /\ UNCHANGED engine
          ELSE /\ last'.ret = TRUE
               /\ redo_stack' = SubSeq(redo_stack, 1, Len(redo_stack) - 1)
               /\ undo_stack' = undo_stack \o <<history>>
               /\ ListEq(history', redo_stack[Len(redo_stack)]) ]_vars

C5_Witness ==
  /\ last.call = "redo" /\ last.ret = TRUE
  /\ redo_stack # <<>> /\ Len(undo_stack) >= 2

\* C6: a successful perform_operation called with history H grows the undo
\* stack by exactly one snapshot equal to H, and the new record is the last
\* element of history.
C6_PerformCommit ==
  [][ PerformOk(last') =>
        /\ undo_stack' = undo_stack \o <<history>>
        /\ history' # <<>>
        /\ LET new == history'[Len(history')]
           IN /\ new.operation = operation_strategy
              /\ new.timestamp = clock
              /\ DecEq(new.result, last'.value)
              /\ new = run'.recs[Len(run'.recs)] ]_vars

\* a perform on a full history: the snapshot holds the evicted record
C6_Witness ==
  /\ PerformOk(last)
  /\ Len(history) = config.max_history_size
  /\ Len(undo_stack) >= 2
  /\ Len(undo_stack[Len(undo_stack)]) = config.max_history_size
  /\ undo_stack[Len(undo_stack)][1] # history[1]

\* the last n elements of a sequence
LastN(q, n) == SubSeq(q, Len(q) - n + 1, Len(q))

\* C7: starting from an empty history, after m > N successful
\* perform_operation calls (N = max_history_size) history holds exactly the
\* last N records produced, oldest first.
C7_KeepsLastN ==
  (run.valid /\ Len(run.recs) > config.max_history_size)
    => history = LastN(run.recs, config.max_history_size)

\* three operations with max_history_size = 2
C7_Witness ==
  /\ run.valid /\ Len(run.recs) = 3 /\ config.max_history_size = 2
  /\ history = <<run.recs[2], run.recs[3]>>
  /\ run.recs[1] # run.recs[2]

\* C8: clear_history() leaves history, undo stack and redo stack empty, and
\* undo() and redo() called next both return False.
C8_ClearHistory ==
  last.call = "clear_history" =>
    /\ history = <<>> /\ undo_stack = <<>> /\ redo_stack = <<>>
    /\ undo_result(history, undo_stack, redo_stack).ret = FALSE
    /\ redo_result(history, undo_stack, redo_stack).ret = FALSE

C8_Witness == last.call = "clear_history" /\ clock >= 2

(* ==================== properties of perform_operation ================= *)
\* C9: perform_operation without an operation set raises OperationError
\* "No operation set" whatever the operands are, changes neither history nor
\* the stacks, and notifies no observer.
C9_NoOperationSet ==
  [][ (last'.call = "perform_operation" /\ operation_strategy = "None") =>
        /\ last'.exc = "OperationError"
        /\ last'.msg = "No operation set"
        /\ UNCHANGED engine
        /\ UNCHANGED store
        /\ updates' = <<>> ]_vars

\* the call failed with observers registered and a loaded history
C9_Witness ==
  /\ last.call = "perform_operation" /\ last.msg = "No operation set"
  /\ operation_strategy = "None"
  /\ Len(observers) = 2 /\ history # <<>>

\* C10: only ValidationError and OperationError leave perform_operation: a
\* ValidationError raised inside it leaves unwrapped, any other exception
\* raised inside it (operation, record, observer, auto-save) leaves as
\* OperationError.
C10_ExceptionTypes ==
  last.call = "perform_operation" =>
    /\ last.exc \in {"None", "ValidationError", "OperationError"}
    /\ (last.inner = "None") <=> (last.exc = "None")
    /\ (last.inner = "ValidationError") => (last.exc = "ValidationError")
    /\ (last.inner \notin {"None", "ValidationError"}) => (last.exc = "OperationError")

\* an observer raised RuntimeError and the caller saw OperationError
C10_Witness ==
  /\ last.call = "perform_operation"
  /\ last.inner = "RuntimeError" /\ last.exc = "OperationError"
  /\ updates # <<>>

(* ======================= properties of notification =================== *)
\* C11: each successful perform_operation calls update exactly once for
\* every entry of the observer list, in registration order, with the new
\* record, and only after the commit: at every update call the record is
\* already in history, the pre-call snapshot is on the undo stack and the
\* redo stack is empty.
C11_NotifyAfterCommit ==
  [][ PerformOk(last') =>
        /\ Len(updates') = Len(observers)
        /\ \A i \in 1..Len(updates') :
             /\ updates'[i].index = i
             /\ updates'[i].kind = observers[i].kind
             /\ updates'[i].calculation = history'[Len(history')]
             /\ updates'[i].calculation = run'.recs[Len(run'.recs)]
             /\ updates'[i].history # <<>>
             /\ updates'[i].history[Len(updates'[i].history)]
                  = updates'[i].calculation
             /\ updates'[i].undo_stack = undo_stack \o <<history>>
             /\ updates'[i].redo_stack = <<>> ]_vars

\* [LoggingObserver, AutoSaveObserver] notified in that order by the first
\* operation performed after an undo
C11_Witness ==
  /\ PerformOk(last)
  /\ Len(observers) = 2 /\ Len(updates) = 2
  /\ updates[1].kind = "LoggingObserver" /\ updates[2].kind = "AutoSaveObserver"
  /\ ~run.valid /\ Len(run.recs) = 1

\* C12: if an observer's update raises during perform_operation, the failure
\* is not swallowed: perform_operation raises to its caller and returns no
\* result, while history, undo stack and redo stack keep the committed
\* change (new record appended, pre-call snapshot pushed, redo stack
\* cleared).
C12_ObserverFailure ==
  [][ (/\ last'.call = "perform_operation"
       /\ \E i \in 1..Len(updates') : updates'[i].exc # "None") =>
        /\ last'.exc \in {"OperationError", "ValidationError"}
        /\ last'.inner = updates'[Len(updates')].exc
        /\ last'.ret = FALSE /\ last'.value = NoDec
        /\ undo_stack' = undo_stack \o <<history>>
        /\ redo_stack' = <<>>
        /\ history' # <<>>
        /\ history' = LastN(Append(history, updates'[1].calculation), Len(history'))
        /\ updates'[1].calculation.operation = operation_strategy
        /\ updates'[1].calculation.timestamp = clock ]_vars

\* the second of two observers raised RuntimeError, in the first operation
\* performed after an undo: the caller saw OperationError, the record stayed
C12_Witness ==
  /\ last.call = "perform_operation" /\ last.exc = "OperationError"
  /\ Len(updates) = 2 /\ updates[1].exc = "None" /\ updates[2].exc = "RuntimeError"
  /\ ~run.valid /\ Len(run.recs) = 1
  /\ history # <<>> /\ history[Len(history)] = updates[1].calculation
  /\ redo_stack = <<>>

\* C13: with an AutoSaveObserver registered, when config.auto_save is true
\* every successful perform_operation invokes save_history once (per
\* registration), after the append and the eviction, so that the store then
\* holds the live history; when config.auto_save is false no update call
\* invokes save_history and the store is unchanged.
C13_AutoSave ==
  [][ (/\ last'.call = "perform_operation"
       /\ \E i \in 1..Len(observers) : observers[i].kind = "AutoSaveObserver") =>
        /\ (PerformOk(last') /\ config.auto_save) =>
             /\ {i \in 1..Len(updates') : updates'[i].saved}
                  = {i \in 1..Len(observers) : observers[i].kind = "AutoSaveObserver"}
             /\ store' = FileOf(HistoryRows(history'))
        /\ ~config.auto_save =>
             /\ \A i \in 1..Len(updates') : ~updates'[i].saved
             /\ store' = store ]_vars

\* the third operation with max_history_size = 2 and one AutoSaveObserver:
\* the file holds the two records kept
C13_Witness ==
  /\ PerformOk(last) /\ config.auto_save
  /\ Len(updates) = 1 /\ updates[1].kind = "AutoSaveObserver" /\ updates[1].saved
  /\ run.valid /\ Len(run.recs) = 3 /\ config.max_history_size = 2
  /\ store = FileOf(HistoryRows(history)) /\ Len(store.rows) = 2

(* ======================= properties of persistence ==================== *)
\* C14: store round trip: for every history H, the empty one included, once
\* save_history() has written H a following load_history(), whatever the
\* live history then is, sets history to a sequence equal to H record by
\* record.
C14_StoreRoundTrip ==
  [][ (/\ last'.call = "load_history" /\ last'.inner # "OSError"
       /\ store.exists
       /\ \A i \in 1..Len(store.rows) : IsSavedRow(store.rows[i])) =>
        /\ last'.exc = "None"
        /\ Len(history') = Len(store.rows)
        /\ \A i \in 1..Len(store.rows) :
             CalcEq(history'[i], SavedRecord(store.rows[i]).val) ]_vars

(* ========================= properties of the record =================== *)
\* C15 as stated: for every Calculation c, from_dict(c.to_dict()) succeeds
\* and returns a record equal to c under __eq__ (operation, operands and
\* result; not the timestamp), with the same recomputed result and with c's
\* stored timestamp, not the time of the reconstruction.
C15_RoundTrip ==
  [][ (last.call = "Calculation" /\ last.ret /\ last'.call = "from_dict") =>
        /\ last'.ret
        /\ CalcEq(last'.value, last.value)
        /\ last'.value.result = last.value.result
        /\ last'.value.timestamp = last.value.timestamp ]_vars

\* C15, amended: the same for every Calculation c whose operands are not
\* NaN (a NaN is equal to nothing, so a record holding one is equal to no
\* record, itself included).
C15_RoundTripOfNumbers ==
  [][ (/\ last.call = "Calculation" /\ last.ret /\ last'.call = "from_dict"
       /\ ~IsNaN(last.args[2]) /\ ~IsNaN(last.args[3])) =>
        /\ last'.ret
        /\ CalcEq(last'.value, last.value)
        /\ last'.value.result = last.value.result
        /\ last'.value.timestamp = last.value.timestamp ]_vars

\* a Root record with an inexact result read back after its construction:
\* it keeps the time of construction
C15_Witness ==
  /\ last.call = "from_dict" /\ last.ret
  /\ last.args[1].operation = StrText("Root")
  /\ last.value.result.r = 1
  /\ last.value.timestamp # clock
  /\ to_dict(last.value) = last.args[1]

\* the result of a record is the operation applied to its operands
IsComputed(c) ==
  LET res == calculate(c.operation, c.operand1, c.operand2)
  IN res.ok /\ c.result = res.val

\* a row read from the file is complete and well formed, but its stored
\* result is not the one its operands give
IsStale(d) ==
  /\ DecimalOf(d.operand1).ok /\ DecimalOf(d.operand2).ok
  /\ DecimalOf(d.result).ok /\ fromisoformat(d.timestamp).ok
  /\ LET res == calculate(OperationKey(d.operation), DecimalOf(d.operand1).val,
                          DecimalOf(d.operand2).val)
     IN res.ok /\ ~DecEq(res.val, DecimalOf(d.result).val)

\* C16: every record in Calculator.history, appended by perform_operation or
\* rebuilt by load_history/from_dict, has result equal to the operation
\* applied to (operand1, operand2); a stored result that disagrees with the
\* recomputed one never raises (it only warns) and the record kept holds the
\* recomputed result, not the stored one.
C16_ResultRecomputed ==
  /\ [](\A i \in 1..Len(history) : IsComputed(history[i]))
  /\ [][ (/\ last'.call = "load_history" /\ last'.inner # "OSError"
          /\ store.exists /\ Len(store.rows) > 0
          /\ \A i \in 1..Len(store.rows) : IsStale(read_csv(store.rows)[i])) =>
            /\ last'.exc = "None"
            /\ Len(history') = Len(store.rows)
            /\ \A i \in 1..Len(store.rows) :
                 /\ from_dict_warns(read_csv(store.rows)[i], clock)
                 /\ IsComputed(history'[i])
                 /\ ~DecEq(history'[i].result,
                           DecimalOf(read_csv(store.rows)[i].result).val) ]_vars

\* load_history has rebuilt a record from a row whose stored result is 5
\* for 2 + 2: the record holds 4
C16_Witness ==
  /\ last.call = "load_history" /\ last.exc = "None"
  /\ store.exists /\ Len(store.rows) = 1 /\ IsStale(read_csv(store.rows)[1])
  /\ Len(history) = 1 /\ history[1].result = Dec(4, 0)

\* C17: for every input mapping, Calculation.from_dict either returns a
\* Calculation or raises OperationError: a missing key, an unparsable
\* decimal or timestamp, a value of a wrong type, or an unknown operation
\* name all surface as OperationError and never as another exception type.
C17_FromDictRaisesOperationError ==
  (last.call = "from_dict" /\ last.exc # "Pending") =>
    \/ last.ret
    \/ last.exc = "OperationError"

\* C18: constructing a Calculation with two Decimal operands and one of the
\* six known operation names either succeeds or raises OperationError, for
\* every operand pair; no lower-level exception type (ZeroDivisionError,
\* OverflowError, InvalidOperation, ValueError, TypeError) reaches the caller.
C18_ConstructorRaisesOperationError ==
  (/\ last.call = "Calculation" /\ last.exc # "Pending"
   /\ last.args[1] \in OperationNames) =>
    \/ last.ret
    \/ last.exc = "OperationError"

(* ======================= properties of the operations ================= *)
\* C19 as stated: Calculation("Division", a, b) raises OperationError
\* "Division by zero is not allowed" exactly when b is zero, for every a
\* including a = 0; for every nonzero b construction succeeds with result
\* a / b computed in decimal arithmetic.
C19_Division ==
  (last.call = "Calculation" /\ last.exc # "Pending" /\ last.args[1] = "Division") =>
    /\ (last.exc = "OperationError" /\ last.msg = "Division by zero is not allowed")
         <=> DecIsZero(last.args[3])
    /\ ~DecIsZero(last.args[3]) =>
         last.ret /\ last.value.result = DecDiv(last.args[2], last.args[3])

\* C19, amended: the same, where the nonzero b that succeed are those for
\* which a and b are not both infinite (an infinity by an infinity fails
\* with OperationError "Calculation failed").
C19_DivisionDefined ==
  (last.call = "Calculation" /\ last.exc # "Pending" /\ last.args[1] = "Division") =>
    /\ (last.exc = "OperationError" /\ last.msg = "Division by zero is not allowed")
         <=> DecIsZero(last.args[3])
    /\ (~DecIsZero(last.args[3]) /\ ~(IsInf(last.args[2]) /\ IsInf(last.args[3]))) =>
         last.ret /\ last.value.result = DecDiv(last.args[2], last.args[3])
    /\ (IsInf(last.args[2]) /\ IsInf(last.args[3])) =>
         last.exc = "OperationError" /\ last.msg = "Calculation failed"

\* 0 divided by the zero 0E+2 has been refused
C19_Witness ==
  /\ last.call = "Calculation" /\ last.exc = "OperationError"
  /\ last.args = <<"Division", Dec(0, 0), Dec(0, 2)>>

C21_DuplicateRegistration ==
  [][ (/\ last'.call = "register_calculation"
       /\ \E i \in 1..Len(_calculations) :
            _calculations[i].key = lower(last'.args[1])) =>
        /\ last'.exc = "ValueError"
        /\ _calculations' = _calculations
        /\ \A a \in Numbers, b \in Numbers :
             /\ create(_calculations', last'.args[1], a, b).ok
             /\ create(_calculations', last'.args[1], a, b)
                  = create(_calculations, last'.args[1], a, b) ]_vars

\* registering a test double under "ADD" has failed, and "add" still names
\* AddCalculation
C21_Witness ==
  /\ last.call = "register_calculation" /\ last.exc = "ValueError"
  /\ last.args = <<"ADD", "MockCalculation">>
  /\ create(_calculations, "ADD", Dec(5, 0), Dec(0, 0)).val.class = "AddCalculation"

\* C22: resolving an operation name that is not registered fails with an
\* error whose message enumerates all currently registered names, both in
\* CalculationFactory.create_calculation and in Calculation.calculate;
\* resolving a registered name succeeds in any letter case.  Stated here for
\* Calculation.calculate, whose registered names are OperationNames.
C22_UnknownOperation ==
  (last.call = "Calculation" /\ last.exc # "Pending") =>
    /\ (\A n \in OperationNames : lower(n) # lower(last.args[1])) =>
         /\ last.exc = "OperationError"
         /\ \A n \in OperationNames : \E i \in DOMAIN last.msg : last.msg[i] = n
    /\ \A n \in OperationNames :
         (/\ lower(n) = lower(last.args[1])
          /\ Calculation(n, last.args[2], last.args[3], 0).ok) => last.ret

(* ================== properties of the loop of calculator() ============= *)
\* C26: in the REPL loop calculator(), the session history holds exactly the
\* calculations whose execute() succeeded, in input order: a line is appended
\* only after successful parsing, factory creation and execution, and the
\* 'history' command lists them numbered from 1 in that order.
C26_SessionHistory ==
  [][ last'.call = "input" =>
        LET line == last'.args[1]
            created == create(_calculations, line[1], float(line[2]).val,
                              float(line[3]).val)
            succeeded == /\ Len(line) = 3
                         /\ float(line[2]).ok /\ float(line[3]).ok
                         /\ created.ok
                         /\ Calculation_execute(created.val).ok
        IN /\ history' = IF succeeded THEN Append(history, created.val) ELSE history
           /\ (Len(line) = 1 /\ lower(line[1]) = "history" /\ history # <<>>) =>
                /\ Len(last'.printed) = Len(history) + 1
                /\ \A i \in 1..Len(history) :
                     /\ last'.printed[i + 1].idx = i
                     /\ last'.printed[i + 1].text.class = history[i].class
                     /\ last'.printed[i + 1].text.a = history[i].a
                     /\ last'.printed[i + 1].text.b = history[i].b ]_vars

\* two calculations were kept, lines that failed came in between or not, and
\* the history command has listed them
C26_Witness ==
  /\ last.call = "input" /\ last.args = << <<"History">> >>
  /\ Len(history) = 2 /\ history[1] # history[2]
  /\ Len(last.printed) = 3 /\ last.printed[3].idx = 2

\* C27 as stated: the REPL loop calculator() ends only on the 'exit' command
\* (any letter case), on end of input, or on a keyboard interrupt, each with
\* exit status 0; every other line (help, history, malformed input,
\* unsupported operation, division by zero, an exception during execution)
\* prints a message and returns to the prompt without ending the loop.
C27_LoopEnds ==
  [][ pc = "input" =>
        LET exits == \/ last'.call = "input raises"
                     \/ /\ last'.call = "input" /\ Len(last'.args[1]) = 1
                        /\ lower(last'.args[1][1]) = "exit"
        IN /\ exits => pc' = "SystemExit(0)"
           /\ (last'.call = "input" /\ ~exits) =>
                pc' = "input" /\ last'.printed # <<>> ]_vars

\* C27, amended: the same, where a line that prints a message is one that
\* is not blank; a blank line prints nothing and returns to the prompt.
C27_LoopEndsOrPrompts ==
  [][ pc = "input" =>
        LET exits == \/ last'.call = "input raises"
                     \/ /\ last'.call = "input" /\ Len(last'.args[1]) = 1
                        /\ lower(last'.args[1][1]) = "exit"
        IN /\ exits => pc' = "SystemExit(0)"
           /\ (last'.call = "input" /\ ~exits) =>
                /\ pc' = "input"
                /\ last'.printed = <<>> <=> last'.args[1] = <<>> ]_vars

\* a division by zero was refused and the loop is back at its prompt
C27_Witness ==
  /\ last.call = "input" /\ last.args = << <<"Divide", "10", "0">> >>
  /\ pc = "input"
  /\ last.printed = <<"Cannot divide by zero.", "Please enter a non-zero divisor.">>

\* C28: in the factory-based calculator, division by zero is rejected before
\* the division is performed: DivideCalculation.execute raises
\* ZeroDivisionError "Cannot divide by zero." when b == 0 without calling
\* Operation.division, and Operation.division itself raises ValueError
\* "Division by zero is not allowed." for every a (including 0) when b == 0.
C28_DivisionByZero ==
  /\ (last.call = "DivideCalculation.execute" /\ DecIsZero(last.args[2])) =>
       /\ last.exc = "ZeroDivisionError" /\ last.msg = "Cannot divide by zero."
       /\ last.calls = <<>>
  /\ (last.call = "Operation.division" /\ DecIsZero(last.args[2])) =>
       last.exc = "ValueError" /\ last.msg = "Division by zero is not allowed."
  /\ (last.call = "input" /\ Len(last.args[1]) = 3 /\ float(last.args[1][3]).ok
      /\ DecIsZero(float(last.args[1][3]).val) /\ lower(last.args[1][1]) = "divide"
      /\ float(last.args[1][2]).ok) =>
       last.calls = <<>> /\ last.printed[1] = "Cannot divide by zero."

\* 0 / 0 was refused by DivideCalculation.execute
C28_Witness ==
  /\ last.call = "DivideCalculation.execute"
  /\ last.args = <<Dec(0, 0), Dec(0, 0)>>
  /\ last.exc = "ZeroDivisionError"

(* ================= properties of the frame of the engine ============== *)
\* C24: set_operation changes only the selected operation: history, undo
\* stack, redo stack and the observer list are unchanged, and no observer is
\* notified (no update call is made, the history file is not written).
C24_SetOperationFrame ==
  [][ (\E name \in StrategyNames : set_operation(name)) =>
        /\ UNCHANGED <<history, undo_stack, redo_stack, observers>>
        /\ updates' = <<>>
        /\ UNCHANGED <<store, config, clock>> ]_vars

\* set_operation returned with a record in history, a snapshot on each
\* stack and two observers registered
C24_Witness ==
  /\ last.call = "set_operation"
  /\ history # <<>> /\ undo_stack # <<>> /\ redo_stack # <<>>
  /\ Len(observers) = 2

\* C29: a perform_operation that fails before the commit (operand validation
\* fails, the operation fails, or record construction fails) leaves history,
\* undo stack and redo stack exactly as before the call and notifies no
\* observer; in particular it does not clear the redo stack.
C29_FailedPerformFrame ==
  [][ \A a \in RawOperands, b \in RawOperands, ioFail \in BOOLEAN :
        (/\ operation_strategy # "None"
         /\ \/ ~validate_number(a).ok
            \/ ~validate_number(b).ok
            \/ ~execute(operation_strategy, validate_number(a).val,
                        validate_number(b).val).ok
            \/ ~Calculation(operation_strategy, validate_number(a).val,
                            validate_number(b).val, clock).ok
         /\ perform_operation(a, b, ioFail)) =>
          /\ last'.exc \in {"ValidationError", "OperationError"}
          /\ UNCHANGED engine
          /\ updates' = <<>>
          /\ UNCHANGED store ]_vars

\* a division by zero failed with an observer registered and a snapshot on
\* the redo stack, which is still there
C29_Witness ==
  /\ last.call = "perform_operation" /\ last.exc = "OperationError"
  /\ last.inner # "None" /\ updates = <<>>
  /\ observers # <<>> /\ redo_stack # <<>> /\ history # <<>>

(* ====================== properties of the snapshots =================== *)
\* C23: a snapshot held on the undo or redo stack is never changed by later
\* operations on the live history (append, front eviction, clear_history,
\* replacement by undo/redo), and changing the history restored by undo/redo
\* does not change any snapshot still on a stack: no snapshot on a stack is
\* the list object self.history is, no two snapshots are the same list, and
\* a snapshot that stays on a stack over a call holds the same records
\* after it.
C23_SnapshotsIndependent ==
  /\ [](LET on_stacks == ids.undo_stack \o ids.redo_stack
        IN /\ Len(ids.undo_stack) = Len(undo_stack)
           /\ Len(ids.redo_stack) = Len(redo_stack)
           /\ \A i \in 1..Len(on_stacks) :
                /\ on_stacks[i] # ids.history
                /\ \A j \in 1..Len(on_stacks) :
                     on_stacks[i] = on_stacks[j] => i = j)
  /\ [][ \A i \in 1..Len(ids.undo_stack \o ids.redo_stack),
            j \in 1..Len(ids'.undo_stack \o ids'.redo_stack) :
           (ids.undo_stack \o ids.redo_stack)[i]
             = (ids'.undo_stack \o ids'.redo_stack)[j]
           => (undo_stack \o redo_stack)[i] = (undo_stack' \o redo_stack')[j] ]_vars

\* an operation was performed on a history restored by undo, with two
\* different snapshots on the undo stack
C23_Witness ==
  /\ PerformOk(last) /\ ~run.valid
  /\ Len(undo_stack) = 2 /\ undo_stack[1] # undo_stack[2]
  /\ history # <<>>

\* C25: show_history returns one string per record of history, in history
\* order (oldest first), each of the form
\* "<operation>(<operand1>, <operand2>) = <result>"; it changes no state, so
\* two consecutive calls return equal lists.
C25_ShowHistory ==
  /\ [](last.call = "show_history" =>
          /\ Len(last.value) = Len(history)
          /\ \A i \in 1..Len(history) :
               last.value[i] = <<history[i].operation, "(",
                                 StrDec(history[i].operand1), ", ",
                                 StrDec(history[i].operand2), ") = ",
                                 StrDec(history[i].result)>>)
  /\ [][ last'.call = "show_history" =>
           UNCHANGED <<config, history, operation_strategy, observers,
                       undo_stack, redo_stack, store, clock>> ]_vars

\* show_history returned two strings for two different records
C25_Witness ==
  /\ last.call = "show_history"
  /\ Len(last.value) = 2 /\ last.value[1] # last.value[2]

\* C30: starting from a state with an empty undo stack and history H0, after
\* k >= 1 successful perform_operation calls (for any max_history_size >= 1,
\* evictions included) followed by k undo() calls history equals H0, k
\* following redo() calls restore the history held after the k-th perform,
\* and a (k+1)-th undo() from the fully undone state returns False.
C30_UndoRedoRoundTrip ==
  /\ []((trail.on /\ trail.undone = Len(trail.performed) /\ trail.redone = 0) =>
          /\ history = trail.H0
          /\ undo_stack = <<>>)
  /\ []((trail.on /\ trail.redone = Len(trail.performed)) =>
          history = trail.performed[Len(trail.performed)])
  /\ [][ (/\ last'.call = "undo"
          /\ trail.on /\ trail.undone = Len(trail.performed) /\ trail.redone = 0) =>
           /\ last'.ret = FALSE
           /\ UNCHANGED engine ]_vars

\* two operations performed on a loaded record with max_history_size = 1,
\* so that the loaded record was evicted; two undos, a third undo refused,
\* two redos
C30_Witness ==
  /\ trail.on /\ Len(trail.performed) = 2 /\ trail.redone = 2 /\ trail.refused
  /\ config.max_history_size = 1
  /\ Len(trail.H0) = 1 /\ trail.H0[1] \notin {history[i] : i \in 1..Len(history)}
  /\ last.call = "redo"

(* ================== properties of load_history and undo =============== *)
\* C32: load_history never changes the undo stack or the redo stack (no
\* snapshot is pushed and neither stack is cleared), and when it raises (a
\* row fails to deserialize, or the file cannot be read) history is left
\* exactly as before the call.
C32_LoadHistoryFrame ==
  [][ last'.call = "load_history" =>
        /\ UNCHANGED <<undo_stack, redo_stack>>
        /\ last'.exc # "None" => history' = history ]_vars

\* load_history raised on the second row of the file, the first being
\* loadable, with a record in history and a snapshot on each stack
C32_Witness ==
  /\ last.call = "load_history" /\ last.exc = "OperationError"
  /\ last.inner # "OSError"
  /\ store = FileOf(<<RowAdd, RowBad>>)
  /\ history # <<>> /\ history[1].timestamp > 0
  /\ undo_stack # <<>> /\ redo_stack # <<>>

\* C33: when the i-th registered observer raises during the notification of
\* a calculation, observers registered after it receive no update for that
\* calculation (so an AutoSaveObserver registered after a failing observer
\* does not save that calculation), while observers before it were each
\* updated exactly once.
C33_NotificationStops ==
  [][ (/\ last'.call = "perform_operation"
       /\ \E i \in 1..Len(updates') : updates'[i].exc # "None") =>
        /\ Len(updates') <= Len(observers)
        /\ updates'[Len(updates')].exc # "None"
        /\ \A i \in 1..Len(updates') :
             /\ updates'[i].index = i
             /\ updates'[i].kind = observers[i].kind
             /\ i < Len(updates') => updates'[i].exc = "None"
        /\ (\A i \in 1..Len(updates') :
              ~(updates'[i].saved /\ updates'[i].exc = "None")) => store' = store ]_vars

\* with auto-save enabled the first of [raising observer, AutoSaveObserver]
\* raised: one update call was made and no file was written
C33_Witness ==
  /\ last.call = "perform_operation" /\ last.exc = "OperationError"
  /\ config.auto_save
  /\ Len(observers) = 2
  /\ observers[1].kind = "RaisingObserver" /\ observers[2].kind = "AutoSaveObserver"
  /\ Len(updates) = 1 /\ updates[1].exc = "RuntimeError"
  /\ history # <<>> /\ ~store.exists

\* C31: undo, redo and clear_history never notify observers, so with
\* auto-save enabled the persisted store is not rewritten by them: after a
\* perform_operation followed by undo() or clear_history(), the store still
\* holds the pre-undo history until the next successful perform_operation or
\* explicit save_history.
C31_UndoNeverNotifies ==
  [][ last'.call \in {"undo", "redo", "clear_history"} =>
        /\ updates' = <<>>
        /\ store' = store
        /\ UNCHANGED observers ]_vars

\* with auto-save enabled and an AutoSaveObserver registered an operation
\* was saved and then undone: the file still holds the record undone
C31_Witness ==
  /\ last.call = "undo" /\ last.ret
  /\ config.auto_save
  /\ \E i \in 1..Len(observers) : observers[i].kind = "AutoSaveObserver"
  /\ store.exists /\ Len(store.rows) = 1
  /\ history = <<>> /\ redo_stack # <<>>
  /\ store = FileOf(HistoryRows(redo_stack[Len(redo_stack)]))

====
